---- MODULE Spec2Model ----
(***************************************************************************)
(* Model of the DataExplorer class of evidence-data-viz (src/app.js): the  *)
(* rule-based question -> SQL translation (generateSQLWithPatterns and its  *)
(* helpers), the optional AI translation with its fallback, the upload     *)
(* path and the chat loop.                                                  *)
(*                                                                          *)
(* JavaScript strings are TLA+ strings; TLC evaluates Len, \o and SubSeq on *)
(* them, so includes(), toLowerCase(), trim() and the regular expressions   *)
(* of the source are computed character by character.                       *)
(*                                                                          *)
(* The JavaScript values null and undefined are the strings "null" and      *)
(* "undefined" (what a template literal prints for them); no column name    *)
(* and no quoted value of the model is one of these two words.  The null    *)
(* of extractNumber is noNumber.                                            *)
(***************************************************************************)
EXTENDS Integers, Sequences, FiniteSets, TLC

VARIABLES
    SQL,           \* this.SQL, the engine: "loading", "ready" or "failed"
    db,            \* this.db: nullDb or the database [table, rows]
    currentData,   \* this.currentData: nullData or [schema, rowCount]
    pipeline,      \* this.pipeline: null or "pipeline"
    modelLoaded,   \* this.modelLoaded
    aiLoads,       \* the initializeAI calls that await the model download
    hideTimers,    \* the pending setTimeout(() => this.hideStatus(), 3000)
    fileInput,     \* this.fileInput.files[0]: noFile or the file selected
    uploads,       \* the uploadFile calls that await parseFile: their files
    chatSection,   \* whether this.chatSection is displayed
    chatInput,     \* this.chatInput.value: the text the user typed
    chatMessages,  \* the messages appended to this.chatMessages
    sends,         \* the sendMessage calls that await the AI backend
    loading,       \* whether this.loading is displayed
    status,        \* this.status: [shown, text, type]
    results,       \* what displayResults put into this.resultsContainer
    lastSend,      \* history: the sendMessage call that finished last
    started,       \* history: how many uploadFile and sendMessage calls began
    call           \* the last pure call on the explorer: [fn, result] or idle

\* The fields of the explorer.
explorer ==
    <<SQL, db, currentData, pipeline, modelLoaded, aiLoads, hideTimers,
      fileInput, uploads,
      chatSection, chatInput, chatMessages, sends, loading, status, results>>

vars == <<explorer, lastSend, started, call>>

----------------------------------------------------------------------------
(* JavaScript values *)

null == "null"
undefined == "undefined"
noNumber == -1

\* JavaScript truthiness of a string-or-null value (if (column), if (value)).
Truthy(v) == v # null /\ v # undefined /\ v # ""

\* JavaScript truthiness of a number-or-null value (value && ..., n || 10).
TruthyNum(n) == n # noNumber /\ n # 0

\* this.currentData = null and this.db = null of the constructor.
nullData == [isNull |-> TRUE]
nullDb == [isNull |-> TRUE]

\* The column list of a database in which CREATE TABLE user_data never ran.
noTable == <<"<no table>">>

\* No file selected, nothing displayed yet, no call finished yet.
noFile == [isNull |-> TRUE]
noResults == [isNull |-> TRUE]
noSend == [isNull |-> TRUE]

----------------------------------------------------------------------------
(* String primitives *)

Char(s, i) == SubSeq(s, i, i)

\* String.prototype.includes
includes(s, t) ==
    \E i \in 0..(Len(s) - Len(t)) : SubSeq(s, i + 1, i + Len(t)) = t

StartsWith(s, prefix) ==
    Len(s) >= Len(prefix) /\ SubSeq(s, 1, Len(prefix)) = prefix

EndsWith(s, suffix) ==
    Len(s) >= Len(suffix) /\ SubSeq(s, Len(s) - Len(suffix) + 1, Len(s)) = suffix

UpperCase == "ABCDEFGHIJKLMNOPQRSTUVWXYZ"
LowerCase == "abcdefghijklmnopqrstuvwxyz"

\* The lower-case letter of every upper-case letter.
LowerOf ==
    [c \in {Char(UpperCase, i) : i \in 1..Len(UpperCase)} |->
        Char(LowerCase, CHOOSE i \in 1..Len(UpperCase) : Char(UpperCase, i) = c)]

LowerChar(c) == IF c \in DOMAIN LowerOf THEN LowerOf[c] ELSE c

RECURSIVE toLowerCase(_)
\* String.prototype.toLowerCase
toLowerCase(s) ==
    IF s = "" THEN "" ELSE LowerChar(Head(s)) \o toLowerCase(Tail(s))

Digits == "0123456789"

IsDigit(c) == \E i \in 1..Len(Digits) : Char(Digits, i) = c

DigitValue(c) == (CHOOSE i \in 1..Len(Digits) : Char(Digits, i) = c) - 1

RECURSIVE parseInt(_)
\* parseInt of a run of decimal digits
parseInt(s) ==
    IF Len(s) = 1 THEN DigitValue(s)
    ELSE 10 * parseInt(SubSeq(s, 1, Len(s) - 1)) + DigitValue(Char(s, Len(s)))

----------------------------------------------------------------------------
(* Value extractor *)

\* text.match(/\d+/): the first maximal run of decimal digits, parsed; null if none.
extractNumber(text) ==
    IF \E i \in 1..Len(text) : IsDigit(Char(text, i))
    THEN LET first == CHOOSE i \in 1..Len(text) :
                          /\ IsDigit(Char(text, i))
                          /\ \A k \in 1..(i - 1) : ~IsDigit(Char(text, k))
             last == CHOOSE j \in first..Len(text) :
                          /\ \A k \in first..j : IsDigit(Char(text, k))
                          /\ (j = Len(text) \/ ~IsDigit(Char(text, j + 1)))
         IN parseInt(SubSeq(text, first, last))
    ELSE noNumber

IsQuote(c) == c = "\"" \/ c = "'"

\* A match of /["']([^"']+)["']/ that starts at i and whose closing quote is at j.
QuotedMatch(text, i, j) ==
    /\ IsQuote(Char(text, i))
    /\ j > i + 1
    /\ IsQuote(Char(text, j))
    /\ \A k \in (i + 1)..(j - 1) : ~IsQuote(Char(text, k))

\* Mutant: the value is matched by (.+), from the first quote of the text to
\* its last one.
extractQuotedValue_Greedy(text) ==
    LET quotes == { i \in 1..Len(text) : IsQuote(Char(text, i)) }
        first == CHOOSE i \in quotes : \A k \in quotes : i <= k
        last == CHOOSE i \in quotes : \A k \in quotes : i >= k
    IN IF quotes # {} /\ last > first + 1
       THEN SubSeq(text, first + 1, last - 1)
       ELSE null

\* text.match(/["']([^"']+)["']/): group 1 of the leftmost match; null if none.
extractQuotedValue(text) ==
    IF \E i \in 1..Len(text) : \E j \in i..Len(text) : QuotedMatch(text, i, j)
    THEN LET i == CHOOSE a \in 1..Len(text) :
                      /\ \E j \in a..Len(text) : QuotedMatch(text, a, j)
                      /\ \A b \in 1..(a - 1) :
                             ~\E j \in b..Len(text) : QuotedMatch(text, b, j)
             j == CHOOSE b \in i..Len(text) : QuotedMatch(text, i, b)
         IN SubSeq(text, i + 1, j - 1)
    ELSE null

----------------------------------------------------------------------------
(* Column resolver *)

\* Mutant: the loop keeps the last column that passes the test.
FirstColumn_LastHit(columns, hits, none) ==
    IF hits # {}
    THEN columns[CHOOSE i \in hits : \A k \in hits : i >= k]
    ELSE none

\* for (const col of columns) { if (test) return col; }: the first column
\* among those at the indices hits (where the test holds), or none.
FirstColumn(columns, hits, none) ==
    IF hits # {}
    THEN columns[CHOOSE i \in hits : \A k \in hits : i <= k]
    ELSE none

\* Mutant: the synonym checks look at the column name only.
SynonymMatch_ColumnOnly(q, col) ==
    LET colLower == toLowerCase(col)
    IN \/ includes(colLower, "name") \/ includes(colLower, "title")
       \/ includes(colLower, "software") \/ includes(colLower, "category")
       \/ includes(colLower, "type") \/ includes(colLower, "kind")
       \/ includes(colLower, "install") \/ includes(colLower, "app")
       \/ includes(colLower, "program") \/ includes(colLower, "status")
       \/ includes(colLower, "date") \/ includes(colLower, "time")
       \/ includes(colLower, "created")

\* The five synonym checks of the second loop, for one column.
SynonymMatch(q, col) ==
    LET colLower == toLowerCase(col)
    IN \/ /\ includes(q, "name") \/ includes(q, "title")
          /\ \/ includes(colLower, "name") \/ includes(colLower, "title")
             \/ includes(colLower, "software")
       \/ /\ includes(q, "category") \/ includes(q, "type")
          /\ \/ includes(colLower, "category") \/ includes(colLower, "type")
             \/ includes(colLower, "kind")
       \/ /\ includes(q, "install") \/ includes(q, "software")
          /\ \/ includes(colLower, "install") \/ includes(colLower, "software")
             \/ includes(colLower, "app") \/ includes(colLower, "program")
       \/ /\ includes(q, "status")
          /\ includes(colLower, "status")
       \/ /\ includes(q, "date") \/ includes(q, "time")
          /\ \/ includes(colLower, "date") \/ includes(colLower, "time")
             \/ includes(colLower, "created")

\* The test of the third loop: a column whose name looks categorical.
Categorical(col) ==
    LET colLower == toLowerCase(col)
    IN \/ includes(colLower, "name") \/ includes(colLower, "title")
       \/ includes(colLower, "software") \/ includes(colLower, "app")
       \/ includes(colLower, "program") \/ includes(colLower, "category")
       \/ includes(colLower, "type") \/ includes(colLower, "status")

\* Mutant: columns[1] instead of columns[0].
FirstOrUndefined_OffByOne(columns) ==
    IF Len(columns) > 1 THEN columns[2] ELSE undefined

\* columns[0]: undefined for an empty array.
FirstOrUndefined(columns) == IF Len(columns) > 0 THEN columns[1] ELSE undefined

findColumnInQuestion(question, columns) ==
    LET q == toLowerCase(question)
        Exact(col) == includes(q, toLowerCase(col))
        Synonym(col) == SynonymMatch(q, col)
        at == 1..Len(columns)
        exact == FirstColumn(columns, {i \in at : Exact(columns[i])}, null)
        synonym == FirstColumn(columns, {i \in at : Synonym(columns[i])}, null)
        categorical ==
            FirstColumn(columns, {i \in at : Categorical(columns[i])}, null)
    IN IF exact # null THEN exact
       ELSE IF synonym # null THEN synonym
       ELSE IF categorical # null THEN categorical
       ELSE FirstOrUndefined(columns)

\* this.currentData.schema.filter(col => col !== excludeColumn)
FilterOut(columns, excludeColumn) ==
    SelectSeq(columns, LAMBDA col : col # excludeColumn)

findSecondColumnInQuestion(question, excludeColumn, schema) ==
    LET columns == FilterOut(schema, excludeColumn)
        q == toLowerCase(question)
        Exact(col) == includes(q, toLowerCase(col))
    IN FirstColumn(columns, {i \in 1..Len(columns) : Exact(columns[i])}, null)

----------------------------------------------------------------------------
(* Intent classifier / SQL synthesizer.  Each rule is one if-block of        *)
(* generateSQLWithPatterns: it gives the statement the block returns, or    *)
(* null when control leaves the block without returning.                    *)

tableName == "user_data"

Quoted(column) == "\"" \o column \o "\""

\* SELECT "<col>", COUNT(*) as count FROM user_data GROUP BY "<col>" ORDER BY count DESC
GroupedCount(column) ==
    "SELECT " \o Quoted(column) \o ", COUNT(*) as count FROM " \o tableName
        \o " GROUP BY " \o Quoted(column) \o " ORDER BY count DESC"

hasChartWord(q) == includes(q, "chart") \/ includes(q, "graph") \/ includes(q, "plot")

hasGroupWord(q) == includes(q, "group") \/ includes(q, "by")

\* Mutant: the chart block without its if (column) test.
chartRule_NoGuard(q, schema) ==
    IF hasChartWord(q)
    THEN GroupedCount(findColumnInQuestion(q, schema))
    ELSE null

\* Mutant: the chart block placed after the average block, so that a question
\* with an average keyword never reaches it.
chartRule_AfterAverage(q, schema) ==
    IF hasChartWord(q)
          /\ ~(includes(q, "average") \/ includes(q, "avg") \/ includes(q, "mean"))
    THEN LET column == findColumnInQuestion(q, schema)
         IN IF Truthy(column) THEN GroupedCount(column) ELSE null
    ELSE null

chartRule(q, schema) ==
    IF hasChartWord(q)
    THEN LET column == findColumnInQuestion(q, schema)
         IN IF Truthy(column) THEN GroupedCount(column) ELSE null
    ELSE null

showRule(q, schema) ==
    IF includes(q, "show") \/ includes(q, "display") \/ includes(q, "view")
    THEN LET column == findColumnInQuestion(q, schema)
             num == IF TruthyNum(extractNumber(q)) THEN extractNumber(q) ELSE 10
         IN IF /\ hasChartWord(q) \/ includes(q, "bar")
               /\ Truthy(column)
            THEN GroupedCount(column)
            ELSE IF includes(q, " by ") /\ Truthy(column)
            THEN GroupedCount(column)
            ELSE IF includes(q, "first") \/ includes(q, "top")
            THEN "SELECT * FROM " \o tableName \o " LIMIT " \o ToString(num)
            ELSE IF includes(q, "all")
            THEN "SELECT * FROM " \o tableName
            ELSE null
    ELSE null

countRule(q, schema) ==
    IF includes(q, "count")
    THEN LET column == findColumnInQuestion(q, schema)
         IN IF hasGroupWord(q) /\ Truthy(column)
            THEN GroupedCount(column)
            ELSE "SELECT COUNT(*) as total_rows FROM " \o tableName
    ELSE null

\* The body shared by the average and the sum block: fn is AVG or SUM, groupedAlias
\* and plainAlias the prefixes of the two aliases.
aggregateBody(q, schema, fn, groupedAlias, plainAlias) ==
    LET column == findColumnInQuestion(q, schema)
        groupCol == findSecondColumnInQuestion(q, column, schema)
    IN IF Truthy(column)
       THEN IF hasGroupWord(q) /\ Truthy(groupCol)
            THEN "SELECT " \o Quoted(groupCol) \o ", " \o fn \o "(" \o Quoted(column)
                     \o ") as " \o groupedAlias \o column \o " FROM " \o tableName
                     \o " GROUP BY " \o Quoted(groupCol)
                     \o " ORDER BY " \o groupedAlias \o column \o " DESC"
            ELSE "SELECT " \o fn \o "(" \o Quoted(column) \o ") as "
                     \o plainAlias \o column \o " FROM " \o tableName
       ELSE null

averageRule(q, schema) ==
    IF includes(q, "average") \/ includes(q, "avg") \/ includes(q, "mean")
    THEN aggregateBody(q, schema, "AVG", "avg_", "average_")
    ELSE null

sumRule(q, schema) ==
    IF includes(q, "sum") \/ includes(q, "total")
    THEN aggregateBody(q, schema, "SUM", "total_", "total_")
    ELSE null

\* SELECT * FROM user_data ORDER BY "<col>" <dir> LIMIT 1
extremeBody(q, schema, dir) ==
    LET column == findColumnInQuestion(q, schema)
    IN IF Truthy(column)
       THEN "SELECT * FROM " \o tableName \o " ORDER BY " \o Quoted(column)
                \o " " \o dir \o " LIMIT 1"
       ELSE null

maxRule(q, schema) ==
    IF includes(q, "maximum") \/ includes(q, "max") \/ includes(q, "highest")
    THEN extremeBody(q, schema, "DESC")
    ELSE null

minRule(q, schema) ==
    IF includes(q, "minimum") \/ includes(q, "min") \/ includes(q, "lowest")
    THEN extremeBody(q, schema, "ASC")
    ELSE null

distinctRule(q, schema) ==
    IF includes(q, "unique") \/ includes(q, "distinct")
    THEN LET column == findColumnInQuestion(q, schema)
         IN IF Truthy(column)
            THEN "SELECT DISTINCT " \o Quoted(column) \o " FROM " \o tableName
                     \o " ORDER BY " \o Quoted(column)
            ELSE null
    ELSE null

\* SELECT * FROM user_data WHERE "<col>" <op> <value> ORDER BY "<col>" <dir>
comparisonBody(q, schema, op, dir) ==
    LET column == findColumnInQuestion(q, schema)
        value == extractNumber(q)
    IN IF Truthy(column) /\ TruthyNum(value)
       THEN "SELECT * FROM " \o tableName \o " WHERE " \o Quoted(column) \o " "
                \o op \o " " \o ToString(value) \o " ORDER BY " \o Quoted(column)
                \o " " \o dir
       ELSE null

greaterRule(q, schema) ==
    IF includes(q, "greater than") \/ includes(q, ">") \/ includes(q, "more than")
    THEN comparisonBody(q, schema, ">", "DESC")
    ELSE null

lessRule(q, schema) ==
    IF includes(q, "less than") \/ includes(q, "<") \/ includes(q, "below")
    THEN comparisonBody(q, schema, "<", "ASC")
    ELSE null

sortRule(q, schema) ==
    IF includes(q, "sort") \/ includes(q, "order")
    THEN LET column == findColumnInQuestion(q, schema)
             desc == IF \/ includes(q, "desc") \/ includes(q, "descending")
                        \/ includes(q, "highest")
                     THEN "DESC" ELSE "ASC"
         IN IF Truthy(column)
            THEN "SELECT * FROM " \o tableName \o " ORDER BY " \o Quoted(column)
                     \o " " \o desc
            ELSE null
    ELSE null

searchRule(q, schema) ==
    IF includes(q, "find") \/ includes(q, "search") \/ includes(q, "where")
    THEN LET column == findColumnInQuestion(q, schema)
             value == extractQuotedValue(q)
         IN IF Truthy(column) /\ Truthy(value)
            THEN "SELECT * FROM " \o tableName \o " WHERE " \o Quoted(column)
                     \o " LIKE '%" \o value \o "%'"
            ELSE null
    ELSE null

byRule(q, schema) ==
    IF includes(q, " by ")
    THEN LET column == findColumnInQuestion(q, schema)
         IN IF Truthy(column) THEN GroupedCount(column) ELSE null
    ELSE null

\* Mutant: the function ends without its final return statement.
defaultRule_NoReturn == undefined

defaultRule == "SELECT * FROM " \o tableName \o " LIMIT 20"

\* generateSQLWithPatterns(question) on this.currentData.schema = schema: the
\* statement of the first block that returns, or the default statement.
generateSQLWithPatterns(question, schema) ==
    LET q == toLowerCase(question)
        r1 == chartRule(q, schema)
        r2 == showRule(q, schema)
        r3 == countRule(q, schema)
        r4 == averageRule(q, schema)
        r5 == sumRule(q, schema)
        r6 == maxRule(q, schema)
        r7 == minRule(q, schema)
        r8 == distinctRule(q, schema)
        r9 == greaterRule(q, schema)
        r10 == lessRule(q, schema)
        r11 == sortRule(q, schema)
        r12 == searchRule(q, schema)
        r13 == byRule(q, schema)
    IN IF r1 # null THEN r1
       ELSE IF r2 # null THEN r2
       ELSE IF r3 # null THEN r3
       ELSE IF r4 # null THEN r4
       ELSE IF r5 # null THEN r5
       ELSE IF r6 # null THEN r6
       ELSE IF r7 # null THEN r7
       ELSE IF r8 # null THEN r8
       ELSE IF r9 # null THEN r9
       ELSE IF r10 # null THEN r10
       ELSE IF r11 # null THEN r11
       ELSE IF r12 # null THEN r12
       ELSE IF r13 # null THEN r13
       ELSE defaultRule

----------------------------------------------------------------------------
(* Inputs *)

\* The fragments questions are made of, in the order they are joined.
Words ==
    << "show", "chart", "bar", "count", "average", "total", "highest", "lowest",
       "unique", "more than", "below", "sort", "find", "top", "all",
       "sales", "by", "by Category", "Category", "25", "0", "'Abc'",
       "category", "type", "by region" >>

\* The largest number of fragments in a question.
MaxWords == 3

RECURSIVE Join(_, _)
\* The fragments Words[i], i in the set idx, in increasing order of i, joined by
\* single spaces (Array.prototype.join(' ')).
Join(idx, from) ==
    IF idx = {} THEN ""
    ELSE LET i == CHOOSE k \in idx : \A m \in idx : k <= m
         IN (IF from THEN "" ELSE " ") \o Words[i] \o Join(idx \ {i}, FALSE)

RECURSIVE Picks(_)
\* The sets of at most n places of Words.
Picks(n) ==
    IF n = 0 THEN {{}}
    ELSE Picks(n - 1) \cup {x \cup {i} : x \in Picks(n - 1), i \in 1..Len(Words)}

Questions == { Join(idx, TRUE) : idx \in Picks(MaxWords) }

\* The column lists of the datasets that are uploaded.
Schemas ==
    { <<>>, <<"Price">>, <<"Sales", "Category">>, <<"Category", "Sales">>,
      <<"Software", "Category", "Installs">>, <<"Sales", "Product Type">>,
      <<"Sales", "Region">>, <<"Region", "Sales">> }

----------------------------------------------------------------------------
(* Pure calls: the translation functions applied to what the user typed,     *)
(* on the loaded dataset.                                                   *)

idle == [fn |-> "none", result |-> null]

\* The explorer after an upload of a dataset with the columns schema, the
\* question typed into the chat input.  Rows without any key give the empty
\* schema: the registry is set and CREATE TABLE fails on the new database.
Loaded(schema, question) ==
    /\ SQL = "ready"
    /\ db = IF schema = <<>> THEN [table |-> noTable, rows |-> 0]
            ELSE [table |-> schema, rows |-> 1]
    /\ currentData = [schema |-> schema, rowCount |-> 1]
    /\ pipeline = null
    /\ modelLoaded = FALSE
    /\ aiLoads = 0
    /\ hideTimers = 0
    /\ fileInput = noFile
    /\ uploads = <<>>
    /\ chatSection = TRUE
    /\ chatInput = question
    /\ chatMessages = <<>>
    /\ sends = <<>>
    /\ loading = FALSE
    /\ status = [shown |-> FALSE, text |-> "", type |-> ""]
    /\ results = noResults
    /\ lastSend = noSend
    /\ started = [uploads |-> 0, sends |-> 0]

InitSynth ==
    /\ \E schema \in Schemas : \E question \in Questions : Loaded(schema, question)
    /\ call = idle

\* Mutant: findSecondColumnInQuestion removes excludeColumn from
\* this.currentData.schema itself (splice) instead of filtering a copy.
CallGenerateSQLWithPatterns_Splice ==
    /\ call = idle
    /\ call' = [fn |-> "generateSQLWithPatterns",
                result |-> generateSQLWithPatterns(chatInput, currentData.schema)]
    /\ currentData' =
           LET q == toLowerCase(chatInput)
           IN IF hasGroupWord(q) /\ (includes(q, "average") \/ includes(q, "total"))
              THEN [currentData EXCEPT
                        !.schema = FilterOut(@, findColumnInQuestion(q, @))]
              ELSE currentData
    /\ UNCHANGED <<SQL, db, pipeline, modelLoaded, aiLoads, hideTimers, fileInput, uploads,
                   chatSection, chatInput, chatMessages, sends, loading, status,
                   results, lastSend, started>>

CallGenerateSQLWithPatterns ==
    /\ call = idle
    /\ call' = [fn |-> "generateSQLWithPatterns",
                result |-> generateSQLWithPatterns(chatInput, currentData.schema)]
    /\ UNCHANGED <<explorer, lastSend, started>>

CallFindColumnInQuestion ==
    /\ call = idle
    /\ call' = [fn |-> "findColumnInQuestion",
                result |-> findColumnInQuestion(chatInput, currentData.schema)]
    /\ UNCHANGED <<explorer, lastSend, started>>

\* findSecondColumnInQuestion(question, excludeColumn), a column of the schema
\* excluded as the aggregate branches do.
CallFindSecondColumnInQuestion(excludeColumn) ==
    /\ call = idle
    /\ call' = [fn |-> "findSecondColumnInQuestion",
                excludeColumn |-> excludeColumn,
                result |-> findSecondColumnInQuestion(chatInput, excludeColumn,
                                                      currentData.schema)]
    /\ UNCHANGED <<explorer, lastSend, started>>

NextSynth == CallGenerateSQLWithPatterns

\* Calls of the synthesizer.
SpecSynth == InitSynth /\ [][NextSynth]_vars

NextResolver ==
    \/ CallFindColumnInQuestion
    \/ \E i \in 1..Len(currentData.schema) :
           CallFindSecondColumnInQuestion(currentData.schema[i])

\* Calls of the column resolver.
SpecResolver == InitSynth /\ [][NextResolver]_vars

----------------------------------------------------------------------------
(* Optional AI translator *)

IsSpace(c) == c = " " \/ c = "\n" \/ c = "\t" \/ c = "\r"

RECURSIVE trimStart(_)
trimStart(s) == IF s # "" /\ IsSpace(Head(s)) THEN trimStart(Tail(s)) ELSE s

RECURSIVE trimEnd(_)
trimEnd(s) ==
    IF s # "" /\ IsSpace(Char(s, Len(s)))
    THEN trimEnd(SubSeq(s, 1, Len(s) - 1))
    ELSE s

\* String.prototype.trim
trim(s) == trimEnd(trimStart(s))

\* sql.replace(/^(SELECT|select)/, 'SELECT')
replaceLeadingSelect(sql) ==
    IF StartsWith(sql, "SELECT") \/ StartsWith(sql, "select")
    THEN "SELECT" \o SubSeq(sql, 7, Len(sql))
    ELSE sql

\* generateSQLWithAI once the backend has answered with generated_text: the
\* clean-up of the answer and the statement returned.
generateSQLWithAI(generated_text) ==
    LET sql == replaceLeadingSelect(trim(generated_text))
    IN IF ~includes(toLowerCase(sql), "from")
       THEN sql \o " FROM user_data"
       ELSE sql

\* What the backend's answers are made of: white space, a text, an ending.
Leads == { "", " ", "\n" }

Bodies ==
    { "SELECT * FROM user_data",
      "select \"Sales\" from user_data",
      "SELECT \"Category\", COUNT(*) FROM user_data GROUP BY \"Category\"",
      "SELECT COUNT(*)",
      "Select * From user_data Limit 5",
      "SELECT 1;\nSELECT 2",
      "I cannot answer that",
      "" }

Trails == { "", ";", " ", "\n", "; ", ";\n", " ;" }

\* The texts the backend generates.
BackendTexts == { lead \o body \o trail : lead \in Leads, body \in Bodies, trail \in Trails }

\* The explorer with a dataset and the AI model loaded.
InitAI ==
    /\ SQL = "ready"
    /\ db = [table |-> <<"Sales", "Category">>, rows |-> 1]
    /\ currentData = [schema |-> <<"Sales", "Category">>, rowCount |-> 1]
    /\ pipeline = "pipeline"
    /\ modelLoaded = TRUE
    /\ aiLoads = 0
    /\ hideTimers = 0
    /\ fileInput = noFile
    /\ uploads = <<>>
    /\ chatSection = TRUE
    /\ chatInput = "average sales by Category"
    /\ chatMessages = <<>>
    /\ sends = <<>>
    /\ loading = FALSE
    /\ status = [shown |-> FALSE, text |-> "", type |-> ""]
    /\ results = noResults
    /\ lastSend = noSend
    /\ started = [uploads |-> 0, sends |-> 0]
    /\ call = idle

CallGenerateSQLWithAI ==
    /\ call = idle
    /\ \E text \in BackendTexts :
           call' = [fn |-> "generateSQLWithAI", text |-> text,
                    result |-> generateSQLWithAI(text)]
    /\ UNCHANGED <<explorer, lastSend, started>>

NextAI == CallGenerateSQLWithAI

\* Calls of the AI translator, one per answer of the backend.
SpecAI == InitAI /\ [][NextAI]_vars

----------------------------------------------------------------------------
(* Upload: parseFile, createTableFromData *)

\* What a parsed file holds: the keys of its first row and the number of rows
\* (rows = 0: the parser delivered an empty array).
Dataset(columns, rows) == [columns |-> columns, rows |-> rows]

\* A file parseCSV rejects.
corrupt == [error |-> "CSV parsing error: Too few fields"]

\* The files the user selects.
Files ==
    { [ext |-> "csv", content |-> Dataset(<<"Sales", "Category">>, 2)],
      [ext |-> "csv", content |-> Dataset(<<"Price">>, 1)],
      [ext |-> "csv", content |-> Dataset(<<>>, 0)],
      [ext |-> "csv", content |-> Dataset(<<"Sales", "sales">>, 1)],
      [ext |-> "csv", content |-> corrupt],
      [ext |-> "txt", content |-> Dataset(<<"Sales", "Category">>, 2)] }

\* parseFile: the extensions it hands to a parser.
Supported(ext) == ext = "csv" \/ ext = "xlsx" \/ ext = "xls"

\* Whether the database engine refuses CREATE TABLE user_data (<columns> TEXT):
\* no column at all, or two names that differ in letter case only.
CreateTableFails(columns) ==
    \/ Len(columns) = 0
    \/ \E i, j \in 1..Len(columns) :
           i # j /\ toLowerCase(columns[i]) = toLowerCase(columns[j])

\* Mutant: the database and the registry are replaced before the data is
\* looked at.
createTableFromData_CheckLast(data, engine, database, registry) ==
    IF engine # "ready"
    THEN [db |-> database, currentData |-> registry,
          error |-> "Cannot read properties of null (reading 'Database')"]
    ELSE IF data.rows = 0
    THEN [db |-> [table |-> noTable, rows |-> 0],
          currentData |-> [schema |-> data.columns, rowCount |-> data.rows],
          error |-> "No data found in file"]
    ELSE IF CreateTableFails(data.columns)
    THEN [db |-> [table |-> noTable, rows |-> 0],
          currentData |-> [schema |-> data.columns, rowCount |-> data.rows],
          error |-> "CREATE TABLE failed"]
    ELSE [db |-> [table |-> data.columns, rows |-> data.rows],
          currentData |-> [schema |-> data.columns, rowCount |-> data.rows],
          error |-> ""]

\* createTableFromData(data) with this.SQL = engine, this.db = database and
\* this.currentData = registry: the two fields after the call and the message
\* of the error it throws ("" if it returns).
createTableFromData(data, engine, database, registry) ==
    IF data.rows = 0
    THEN [db |-> database, currentData |-> registry,
          error |-> "No data found in file"]
    ELSE IF engine # "ready"
    THEN [db |-> database, currentData |-> registry,
          error |-> "Cannot read properties of null (reading 'Database')"]
    ELSE IF CreateTableFails(data.columns)
    THEN [db |-> [table |-> noTable, rows |-> 0],
          currentData |-> [schema |-> data.columns, rowCount |-> data.rows],
          error |-> "CREATE TABLE failed"]
    ELSE [db |-> [table |-> data.columns, rows |-> data.rows],
          currentData |-> [schema |-> data.columns, rowCount |-> data.rows],
          error |-> ""]

\* columns.join(', ')
RECURSIVE joinColumns(_)
joinColumns(columns) ==
    IF Len(columns) = 0 THEN ""
    ELSE IF Len(columns) = 1 THEN columns[1]
    ELSE columns[1] \o ", " \o joinColumns(Tail(columns))

\* The status text of a finished upload.
loadedStatus(data) ==
    "Successfully loaded " \o ToString(data.rows) \o " rows with columns: "
        \o joinColumns(data.columns)

\* showStatus(message, type)
showStatus(message, type) == [shown |-> TRUE, text |-> message, type |-> type]

\* hideStatus(): the text stays, the element is hidden.
hideStatus(st) == [st EXCEPT !.shown = FALSE]

\* The largest number of uploadFile calls and of sendMessage calls of a run.
MaxUploads == 2
MaxSends == 2

\* The largest number of uploadFile and sendMessage calls together.
MaxRequests == 3

\* The user picks a file (handleFileSelect).
handleFileSelect(file) ==
    /\ fileInput # file
    /\ fileInput' = file
    /\ UNCHANGED <<SQL, db, currentData, pipeline, modelLoaded, aiLoads, hideTimers,
                   uploads, chatSection, chatInput, chatMessages, sends, loading, status,
                   results, lastSend, started, call>>

\* uploadFile up to its await of parseFile; with an unsupported extension
\* parseFile throws and the catch and finally blocks run at once.
uploadFile ==
    /\ fileInput # noFile
    /\ started.uploads < MaxUploads
    /\ started.uploads + started.sends < MaxRequests
    /\ started' = [started EXCEPT !.uploads = @ + 1]
    /\ IF Supported(fileInput.ext)
       THEN /\ uploads' = Append(uploads, fileInput)
            /\ loading' = TRUE
            /\ status' = hideStatus(status)
       ELSE /\ uploads' = uploads
            /\ loading' = FALSE
            /\ status' = showStatus(
                   "Upload failed: Unsupported file type. Please upload CSV or Excel files.",
                   "error")
    /\ UNCHANGED <<SQL, db, currentData, pipeline, modelLoaded, aiLoads, hideTimers,
                   fileInput, chatSection, chatInput, chatMessages, sends, results, lastSend,
                   call>>

\* The sequence s without its element i.
Remove(s, i) == SubSeq(s, 1, i - 1) \o SubSeq(s, i + 1, Len(s))

\* The rest of uploadFile once the parser of upload i has settled:
\* createTableFromData, the success status and initializeAI up to its await,
\* or the catch block; then the finally block.
parseFileSettled(i) ==
    LET file == uploads[i]
        made == createTableFromData(file.content, SQL, db, currentData)
    IN /\ uploads' = Remove(uploads, i)
       /\ loading' = FALSE
       /\ IF file.content = corrupt
          THEN /\ status' = showStatus("Upload failed: " \o corrupt.error, "error")
               /\ UNCHANGED <<db, currentData, chatSection, aiLoads>>
          ELSE /\ db' = made.db
               /\ currentData' = made.currentData
               /\ IF made.error # ""
                  THEN /\ status' = showStatus("Upload failed: " \o made.error, "error")
                       /\ UNCHANGED <<chatSection, aiLoads>>
                  ELSE /\ chatSection' = TRUE
                       /\ IF modelLoaded
                          THEN /\ status' =
                                      showStatus(loadedStatus(file.content),
                                                 "success")
                               /\ aiLoads' = aiLoads
                          ELSE /\ status' = showStatus(
                                      "Loading AI model (first time only, ~25MB)...",
                                      "success")
                               /\ aiLoads' = aiLoads + 1
       /\ UNCHANGED <<SQL, pipeline, modelLoaded, hideTimers, fileInput, chatInput,
                      chatMessages, sends, results, lastSend, started, call>>

\* initSqlJs resolves or rejects (initializeSQL).
initializeSQLSettled(ok) ==
    /\ SQL = "loading"
    /\ SQL' = IF ok THEN "ready" ELSE "failed"
    /\ status' = IF ok THEN status
                 ELSE showStatus("Failed to initialize database engine", "error")
    /\ UNCHANGED <<db, currentData, pipeline, modelLoaded, aiLoads, hideTimers,
                   fileInput, uploads, chatSection, chatInput, chatMessages, sends, loading,
                   results, lastSend, started, call>>

\* The model download of one initializeAI call ends (resolves or rejects).
initializeAISettled(ok) ==
    /\ aiLoads > 0
    /\ aiLoads' = aiLoads - 1
    /\ hideTimers' = hideTimers + 1
    /\ IF ok
       THEN /\ pipeline' = "pipeline"
            /\ modelLoaded' = TRUE
            /\ status' = showStatus("AI model loaded successfully!", "success")
       ELSE /\ UNCHANGED <<pipeline, modelLoaded>>
            /\ status' = showStatus(
                   "Failed to load AI model. Using smart pattern matching instead.",
                   "error")
    /\ UNCHANGED <<SQL, db, currentData, fileInput, uploads, chatSection, chatInput,
                   chatMessages, sends, loading, results, lastSend, started, call>>

\* A timer set by initializeAI fires: hideStatus().
hideStatusTimer ==
    /\ hideTimers > 0
    /\ hideTimers' = hideTimers - 1
    /\ status' = hideStatus(status)
    /\ UNCHANGED <<SQL, db, currentData, pipeline, modelLoaded, aiLoads, fileInput,
                   uploads, chatSection, chatInput, chatMessages, sends, loading,
                   results, lastSend, started, call>>

----------------------------------------------------------------------------
(* Chat: sendMessage, generateSQLFromQuestion, executeQuery *)

\* What the user types into the chat input (the last one is blank).
ChatQuestions == { "chart by category", "average sales", "  " }

\* The answers of the AI backend to a prompt.
AnswerTexts == { "SELECT * FROM user_data", "I cannot answer that", "" }

\* The message of the error the rejected backend call carries.
backendError == "AI backend failed"

\* The message of the TypeError of this.currentData.schema on a null registry.
noRegistry == "Cannot read properties of null (reading 'schema')"

\* The message of the error the database engine raises for sql on database
\* ("" if the statement runs): no database, no statement that begins with
\* the keyword SELECT, or no table user_data to select from.
engineError(sql, database) ==
    IF database = nullDb THEN "Cannot read properties of null (reading 'prepare')"
    ELSE IF ~StartsWith(toLowerCase(sql), "select ") THEN "syntax error"
    ELSE IF includes(sql, tableName) /\ database.table = noTable
    THEN "no such table: user_data"
    ELSE ""

\* Mutant: the error of the engine is thrown as it is.
executeQuery_Unwrapped(sql, database) == engineError(sql, database)

\* executeQuery(sql): the message of the error it throws, "" if it returns rows.
executeQuery(sql, database) ==
    IF engineError(sql, database) # ""
    THEN "SQL Error: " \o engineError(sql, database)
    ELSE ""

\* addMessage(text, sender)
addMessage(messages, text, sender, kind) ==
    Append(messages, [sender |-> sender, kind |-> kind, text |-> text])

\* The pattern branch of generateSQLFromQuestion: the statement, or the error
\* thrown when no dataset was ever loaded.
translateWithPatterns(question, registry) ==
    IF registry = nullData
    THEN [sqlQuery |-> "", error |-> noRegistry]
    ELSE [sqlQuery |-> generateSQLWithPatterns(question, registry.schema), error |-> ""]

\* Mutant: generateSQLFromQuestion without the try/catch around the AI call.
fallBack_NoCatch(question, registry) == [sqlQuery |-> "", error |-> backendError]

\* generateSQLFromQuestion after generateSQLWithAI has thrown: the catch block
\* logs a warning and the pattern branch runs.
fallBack(question, registry) == translateWithPatterns(question, registry)

\* The columns a statement is generated from: this.currentData.schema in
\* generateSQLWithPatterns, and in the prompt of generateSQLWithAI.
schemaOf(registry) == IF registry = nullData THEN noTable ELSE registry.schema

\* sendMessage from the return of generateSQLFromQuestion on: executeQuery,
\* the assistant message, displayResults, or the catch block; then finally.
\* translation is [sqlQuery, error]; trace is what is kept in lastSend.
finishSend(question, messages, translation, trace) ==
    LET failure == IF translation.error # "" THEN translation.error
                   ELSE executeQuery(translation.sqlQuery, db)
    IN /\ IF failure # ""
          THEN /\ chatMessages' = addMessage(messages,
                       "Sorry, I encountered an error: " \o failure, "ai", "error")
               /\ results' = results
          ELSE /\ chatMessages' = addMessage(messages, translation.sqlQuery, "ai",
                                             "results")
               /\ results' = [query |-> translation.sqlQuery]
       /\ loading' = FALSE
       /\ lastSend' = [question |-> question, sqlQuery |-> translation.sqlQuery,
                       error |-> failure, schema |-> currentData,
                       aiAvailable |-> trace.aiAvailable, calls |-> trace.calls,
                       aiOutcome |-> trace.aiOutcome, aiText |-> trace.aiText,
                       generatedFrom |-> trace.generatedFrom]

\* sendMessage with typed in the chat input: a blank question returns at
\* once; with the model loaded the call runs up to the await of the backend
\* inside generateSQLWithAI, the prompt written with the columns of the
\* registry; without it the call runs to its end with the
\* pattern statement.
sendMessage(typed) ==
    LET question == trim(typed)
        asked == addMessage(chatMessages, question, "user", "question")
    IN /\ chatSection
       /\ started.sends < MaxSends
       /\ started.uploads + started.sends < MaxRequests
       /\ started' = [started EXCEPT !.sends = @ + 1]
       /\ IF question = ""
          THEN /\ chatInput' = typed
               /\ UNCHANGED <<chatMessages, sends, loading, results, lastSend>>
          ELSE /\ chatInput' = ""
               /\ IF modelLoaded /\ pipeline # null
                  THEN /\ sends' = Append(sends, [question |-> question,
                                                    prompt |-> currentData.schema])
                       /\ chatMessages' = asked
                       /\ loading' = TRUE
                       /\ UNCHANGED <<results, lastSend>>
                  ELSE /\ sends' = sends
                       /\ finishSend(question, asked,
                              translateWithPatterns(question, currentData),
                              [aiAvailable |-> FALSE,
                               calls |-> <<"generateSQLWithPatterns">>,
                               aiOutcome |-> "none", aiText |-> "",
                               generatedFrom |-> schemaOf(currentData)])
       /\ UNCHANGED <<SQL, db, currentData, pipeline, modelLoaded, aiLoads,
                      hideTimers, fileInput, uploads, chatSection, status, call>>

\* The backend answers send i with text: generateSQLWithAI cleans the answer
\* up and returns it, and sendMessage goes on with it.
pipelineResolved(i, text) ==
    /\ sends' = Remove(sends, i)
    /\ finishSend(sends[i].question, chatMessages,
           [sqlQuery |-> generateSQLWithAI(text), error |-> ""],
           [aiAvailable |-> TRUE, calls |-> <<"generateSQLWithAI">>,
            aiOutcome |-> "answered", aiText |-> text,
            generatedFrom |-> sends[i].prompt])
    /\ UNCHANGED <<SQL, db, currentData, pipeline, modelLoaded, aiLoads, hideTimers,
                   fileInput, uploads, chatSection, chatInput, status, started, call>>

\* The backend call of send i rejects: generateSQLWithAI throws and
\* generateSQLFromQuestion falls back to the patterns.
pipelineRejected(i) ==
    /\ sends' = Remove(sends, i)
    /\ finishSend(sends[i].question, chatMessages,
           fallBack(sends[i].question, currentData),
           [aiAvailable |-> TRUE,
            calls |-> <<"generateSQLWithAI", "generateSQLWithPatterns">>,
            aiOutcome |-> "error", aiText |-> "",
            generatedFrom |-> schemaOf(currentData)])
    /\ UNCHANGED <<SQL, db, currentData, pipeline, modelLoaded, aiLoads, hideTimers,
                   fileInput, uploads, chatSection, chatInput, status, started, call>>

----------------------------------------------------------------------------
(* The explorer *)

\* The state the constructor leaves.
Init ==
    /\ SQL = "loading"
    /\ db = nullDb
    /\ currentData = nullData
    /\ pipeline = null
    /\ modelLoaded = FALSE
    /\ aiLoads = 0
    /\ hideTimers = 0
    /\ fileInput = noFile
    /\ uploads = <<>>
    /\ chatSection = FALSE
    /\ chatInput = ""
    /\ chatMessages = <<>>
    /\ sends = <<>>
    /\ loading = FALSE
    /\ status = [shown |-> FALSE, text |-> "", type |-> ""]
    /\ results = noResults
    /\ lastSend = noSend
    /\ started = [uploads |-> 0, sends |-> 0]
    /\ call = idle

Next ==
    \/ \E ok \in BOOLEAN : initializeSQLSettled(ok)
    \/ \E file \in Files : handleFileSelect(file)
    \/ uploadFile
    \/ \E i \in 1..Len(uploads) : parseFileSettled(i)
    \/ \E ok \in BOOLEAN : initializeAISettled(ok)
    \/ hideStatusTimer
    \/ \E typed \in ChatQuestions : sendMessage(typed)
    \/ \E i \in 1..Len(sends) : \E text \in AnswerTexts : pipelineResolved(i, text)
    \/ \E i \in 1..Len(sends) : pipelineRejected(i)

Spec == Init /\ [][Next]_vars

----------------------------------------------------------------------------
(* Vocabulary of the properties *)

Range(seq) == { seq[i] : i \in 1..Len(seq) }

\* The identifiers a statement encloses in double quotes: the text between the
\* 1st and 2nd, the 3rd and 4th, ... double quote.
QuotedIdentifiers(sql) ==
    LET at == { i \in 1..Len(sql) : Char(sql, i) = "\"" }
        rank(i) == Cardinality({ j \in at : j <= i })
    IN { SubSeq(sql, i + 1, j - 1) :
           <<i, j>> \in { p \in at \X at : rank(p[1]) % 2 = 1 /\ rank(p[2]) = rank(p[1]) + 1 } }

SynthCalled == call.fn = "generateSQLWithPatterns"

\* The grouped-count statement over col, written out.
IsGroupedCountOver(sql, col) ==
    sql = "SELECT \"" \o col \o "\", COUNT(*) as count FROM user_data GROUP BY \""
              \o col \o "\" ORDER BY count DESC"

hasAverageWord(q) == includes(q, "average") \/ includes(q, "avg") \/ includes(q, "mean")

----------------------------------------------------------------------------
(* C1: for every question and every schema of a loaded dataset, the         *)
(* statement generateSQLWithPatterns returns is a non-empty string that     *)
(* starts with SELECT and names the table user_data.                        *)
C1_SelectOnUserData ==
    SynthCalled =>
        /\ call.result # ""
        /\ call.result # null
        /\ call.result # undefined
        /\ StartsWith(call.result, "SELECT")
        /\ includes(call.result, "user_data")

\* A call that reaches the default statement on the empty schema although the
\* question has a chart keyword.
C1_Witness ==
    /\ SynthCalled
    /\ currentData.schema = <<>>
    /\ includes(chatInput, "chart")
    /\ call.result = "SELECT * FROM user_data LIMIT 20"

----------------------------------------------------------------------------
(* C2: the statement is that of the lowest-numbered row of the 18-row table *)
(* whose trigger words and sub-conditions hold for the lower-cased          *)
(* question; row 18 is emitted exactly when no other row's condition holds. *)

HasNumber(q) == \E i \in 1..Len(q) : IsDigit(Char(q, i))

\* Whether the condition of row r of the pattern table holds for q.
RowHolds(r, q) ==
    LET show == includes(q, "show") \/ includes(q, "display") \/ includes(q, "view")
    IN CASE r = 1 -> includes(q, "chart") \/ includes(q, "graph") \/ includes(q, "plot")
         [] r = 2 -> show /\ (\/ includes(q, "chart") \/ includes(q, "graph")
                              \/ includes(q, "bar") \/ includes(q, "plot"))
         [] r = 3 -> show /\ includes(q, " by ")
         [] r = 4 -> show /\ (includes(q, "first") \/ includes(q, "top"))
         [] r = 5 -> show /\ includes(q, "all")
         [] r = 6 -> includes(q, "count") /\ (includes(q, "group") \/ includes(q, "by"))
         [] r = 7 -> includes(q, "count")
         [] r = 8 -> includes(q, "average") \/ includes(q, "avg") \/ includes(q, "mean")
         [] r = 9 -> includes(q, "sum") \/ includes(q, "total")
         [] r = 10 -> includes(q, "maximum") \/ includes(q, "max") \/ includes(q, "highest")
         [] r = 11 -> includes(q, "minimum") \/ includes(q, "min") \/ includes(q, "lowest")
         [] r = 12 -> includes(q, "unique") \/ includes(q, "distinct")
         [] r = 13 -> /\ \/ includes(q, "greater than") \/ includes(q, ">")
                         \/ includes(q, "more than")
                      /\ HasNumber(q)
         [] r = 14 -> /\ \/ includes(q, "less than") \/ includes(q, "<")
                         \/ includes(q, "below")
                      /\ HasNumber(q)
         [] r = 15 -> includes(q, "sort") \/ includes(q, "order")
         [] r = 16 -> /\ \/ includes(q, "find") \/ includes(q, "search")
                         \/ includes(q, "where")
                      /\ extractQuotedValue(q) # null
         [] r = 17 -> includes(q, " by ")
         [] r = 18 -> TRUE

\* The lowest-numbered row whose condition holds.
TableRow(q) == CHOOSE r \in 1..18 : RowHolds(r, q) /\ \A k \in 1..(r - 1) : ~RowHolds(k, q)

\* The statement of row r, its slots filled by the column resolver and the
\* value extractor.
RowSQL(r, q, schema) ==
    LET col == findColumnInQuestion(q, schema)
        col2 == findSecondColumnInQuestion(q, col, schema)
        n == extractNumber(q)
        grouped == "SELECT \"" \o col \o "\", COUNT(*) as count FROM user_data GROUP BY \""
                       \o col \o "\" ORDER BY count DESC"
        byToo == includes(q, "group") \/ includes(q, "by")
    IN CASE r \in {1, 2, 3, 6, 17} -> grouped
         [] r = 4 -> "SELECT * FROM user_data LIMIT "
                         \o (IF n = noNumber THEN "10" ELSE ToString(n))
         [] r = 5 -> "SELECT * FROM user_data"
         [] r = 7 -> "SELECT COUNT(*) as total_rows FROM user_data"
         [] r = 8 -> IF byToo /\ col2 # null
                     THEN "SELECT \"" \o col2 \o "\", AVG(\"" \o col \o "\") as avg_" \o col
                              \o " FROM user_data GROUP BY \"" \o col2
                              \o "\" ORDER BY avg_" \o col \o " DESC"
                     ELSE "SELECT AVG(\"" \o col \o "\") as average_" \o col
                              \o " FROM user_data"
         [] r = 9 -> IF byToo /\ col2 # null
                     THEN "SELECT \"" \o col2 \o "\", SUM(\"" \o col \o "\") as total_" \o col
                              \o " FROM user_data GROUP BY \"" \o col2
                              \o "\" ORDER BY total_" \o col \o " DESC"
                     ELSE "SELECT SUM(\"" \o col \o "\") as total_" \o col
                              \o " FROM user_data"
         [] r = 10 -> "SELECT * FROM user_data ORDER BY \"" \o col \o "\" DESC LIMIT 1"
         [] r = 11 -> "SELECT * FROM user_data ORDER BY \"" \o col \o "\" ASC LIMIT 1"
         [] r = 12 -> "SELECT DISTINCT \"" \o col \o "\" FROM user_data ORDER BY \""
                          \o col \o "\""
         [] r = 13 -> "SELECT * FROM user_data WHERE \"" \o col \o "\" > " \o ToString(n)
                          \o " ORDER BY \"" \o col \o "\" DESC"
         [] r = 14 -> "SELECT * FROM user_data WHERE \"" \o col \o "\" < " \o ToString(n)
                          \o " ORDER BY \"" \o col \o "\" ASC"
         [] r = 15 -> "SELECT * FROM user_data ORDER BY \"" \o col \o "\" "
                          \o (IF \/ includes(q, "desc") \/ includes(q, "descending")
                                 \/ includes(q, "highest")
                              THEN "DESC" ELSE "ASC")
         [] r = 16 -> "SELECT * FROM user_data WHERE \"" \o col \o "\" LIKE '%"
                          \o extractQuotedValue(q) \o "%'"
         [] r = 18 -> "SELECT * FROM user_data LIMIT 20"

\* C2 as claimed: on a non-empty schema the statement returned is the statement
\* of the first row of the table that holds.
C2_FirstRowOfTable ==
    (SynthCalled /\ Len(currentData.schema) > 0) =>
        LET q == toLowerCase(chatInput)
        IN call.result = RowSQL(TableRow(q), q, currentData.schema)

\* The first run of digits of the question is 0 (or 00, 000, ...).
FirstNumberIsZero(q) == extractNumber(q) = 0

\* C2 on the questions whose first number is not zero: supporting check, the
\* table and the code agree on all of them.
C2_FirstRowOfTableNonZero ==
    (SynthCalled /\ Len(currentData.schema) > 0
        /\ ~FirstNumberIsZero(toLowerCase(chatInput))) =>
        LET q == toLowerCase(chatInput)
        IN call.result = RowSQL(TableRow(q), q, currentData.schema)

----------------------------------------------------------------------------
----------------------------------------------------------------------------
(* C4: on a non-empty schema findColumnInQuestion returns an element of the *)
(* schema, never null or undefined.  (That equal inputs give equal columns  *)
(* is how an operator behaves and is not part of the formula.)              *)
ResolverCalled == call.fn = "findColumnInQuestion"

C4_ResolvesToSchemaColumn ==
    (ResolverCalled /\ Len(currentData.schema) > 0) =>
        /\ call.result \in Range(currentData.schema)
        /\ call.result # null
        /\ call.result # undefined

\* No column name and no synonym matches and no name looks categorical: the
\* final fallback gives the first column.
C4_Witness ==
    /\ ResolverCalled
    /\ currentData.schema = <<"Price">>
    /\ chatInput = "sort 25"
    /\ call.result = "Price"

----------------------------------------------------------------------------
(* C5: every column a returned statement refers to (inside double quotes:   *)
(* projection, aggregate argument, GROUP BY, ORDER BY, WHERE) is a column   *)
(* of the current schema, the empty schema included; undefined and null     *)
(* never appear as a column.                                                *)
C5_ColumnsFromSchema ==
    SynthCalled =>
        /\ QuotedIdentifiers(call.result) \subseteq Range(currentData.schema)
        /\ ~includes(call.result, "\"undefined\"")
        /\ ~includes(call.result, "\"null\"")

\* A grouped average: two different schema columns in one statement.
C5_Witness ==
    /\ SynthCalled
    /\ chatInput = "average sales by Category"
    /\ QuotedIdentifiers(call.result) = {"Sales", "Category"}

\* The empty schema with a chart question: the chart block is skipped.
C5_WitnessEmptySchema ==
    /\ SynthCalled
    /\ currentData.schema = <<>>
    /\ chatInput = "chart by Category"
    /\ QuotedIdentifiers(call.result) = {}

----------------------------------------------------------------------------
----------------------------------------------------------------------------
(* C9: every statement generateSQLWithAI returns has no white space at      *)
(* either end, does not end with a semicolon and contains FROM.             *)
AICalled == call.fn = "generateSQLWithAI"

NoOuterSpace(s) == s = trim(s)

C9_CleanedStatement ==
    AICalled =>
        /\ NoOuterSpace(call.result)
        /\ ~EndsWith(call.result, ";")
        /\ includes(toLowerCase(call.result), "from")

\* Supporting checks: which of the three parts the code keeps.
C9_ContainsFrom == AICalled => includes(toLowerCase(call.result), "from")

C9_NoOuterSpaceUnlessEmpty ==
    (AICalled /\ trim(call.text) # "") => NoOuterSpace(call.result)

\* What sendMessage did with the last question it answered.
Answered == lastSend # noSend

\* The text of message i of the chat.
Shown(i) == chatMessages[i].text

\* C7: when the model is loaded the AI translator is called first; when its
\* call fails, the statement of the send is exactly what
\* generateSQLWithPatterns gives for the question on the schema of that
\* moment, the failure of the backend is neither the error of the send nor
\* part of any message of the chat; when the model is not loaded only the
\* pattern synthesizer is called.
C7_AIFirstSilentFallback ==
    Answered =>
        /\ lastSend.aiAvailable => Head(lastSend.calls) = "generateSQLWithAI"
        /\ ~lastSend.aiAvailable => lastSend.calls = <<"generateSQLWithPatterns">>
        /\ lastSend.aiOutcome = "error" =>
              /\ lastSend.calls = <<"generateSQLWithAI", "generateSQLWithPatterns">>
              /\ lastSend.sqlQuery =
                     generateSQLWithPatterns(lastSend.question, lastSend.schema.schema)
              /\ ~includes(lastSend.error, backendError)
              /\ \A i \in 1..Len(chatMessages) : ~includes(Shown(i), backendError)

\* A send whose backend call failed and that ended with the rows of the
\* pattern statement on display.
C7_Witness ==
    /\ Answered
    /\ lastSend.aiOutcome = "error"
    /\ lastSend.error = ""
    /\ results = [query |-> lastSend.sqlQuery]
    /\ StartsWith(lastSend.sqlQuery, "SELECT ")

\* A send answered without the model: only the patterns ran.
C7_WitnessNoModel ==
    /\ Answered
    /\ ~lastSend.aiAvailable
    /\ lastSend.error = ""

\* The backend text is no SQL statement: it does not begin with SELECT.
Unusable(text) == ~StartsWith(toLowerCase(trim(text)), "select")

\* C8: when the backend answers with a text that is no usable statement, the
\* send ends with the statement of the pattern synthesizer and without an
\* error message.
C8_UnusableTextFallsBack ==
    (Answered /\ lastSend.aiOutcome = "answered" /\ Unusable(lastSend.aiText)) =>
        /\ lastSend.sqlQuery =
               generateSQLWithPatterns(lastSend.question, lastSend.schema.schema)
        /\ lastSend.error = ""

\* What the code does with such a text: the cleaned-up text is executed as it
\* is and the send ends with the error message of the engine.
C8_UnusableTextIsExecuted ==
    (Answered /\ lastSend.aiOutcome = "answered" /\ Unusable(lastSend.aiText)) =>
        /\ lastSend.sqlQuery = generateSQLWithAI(lastSend.aiText)
        /\ StartsWith(lastSend.error, "SQL Error: ")
        /\ \E i \in 1..Len(chatMessages) :
               Shown(i) = "Sorry, I encountered an error: " \o lastSend.error

\* The upload whose parser settles in this step, 0 if the step is no such step.
Settling ==
    IF Len(uploads') = Len(uploads) - 1
    THEN CHOOSE i \in 1..Len(uploads) : uploads' = Remove(uploads, i)
    ELSE 0

\* The parsed data has no rows.
IsEmpty(data) == data # corrupt /\ data.rows = 0

noDataStatus == showStatus("Upload failed: No data found in file", "error")

\* C10: the step of an upload that hands an empty dataset to
\* createTableFromData ends with the status 'Upload failed: No data found in
\* file' and leaves the database and the schema registry as they were.
C10_EmptyDatasetChangesNothing ==
    [][(Settling # 0 /\ IsEmpty(uploads[Settling].content)) =>
           /\ status' = noDataStatus
           /\ db' = db
           /\ currentData' = currentData
           /\ chatSection' = chatSection]_vars

\* An empty dataset was refused while an earlier dataset is loaded, and that
\* dataset is still the one of the registry and of the database.
C10_Witness ==
    /\ status = noDataStatus
    /\ uploads = <<>>
    /\ currentData # nullData
    /\ db # nullDb
    /\ db.table = currentData.schema

----------------------------------------------------------------------------
(* Uploads that fail *)

\* This step is the end of an upload in its catch block: uploadFile on a file
\* parseFile refuses, or the rest of uploadFile after the parser has settled.
UploadFails ==
    /\ Settling # 0 \/ started'.uploads = started.uploads + 1
    /\ status'.shown
    /\ status'.type = "error"
    /\ StartsWith(status'.text, "Upload failed: ")

\* C11: every step in which an upload fails leaves the schema registry and
\* the database as they were before it.
C11_FailedUploadChangesNothing ==
    [][UploadFails => (db' = db /\ currentData' = currentData)]_vars

\* What the code keeps of it: every failure but that of CREATE TABLE leaves
\* the two fields as they were.
C11_FailureBeforeCreateChangesNothing ==
    [][(UploadFails /\ status'.text # "Upload failed: CREATE TABLE failed") =>
           (db' = db /\ currentData' = currentData)]_vars

\* After a failed CREATE TABLE the registry names the columns of the refused
\* file and the database has no table, although a dataset had been loaded.
C11_RegistryWithoutTable ==
    /\ status.text = "Upload failed: CREATE TABLE failed"
    /\ chatSection
    /\ db.table = noTable
    /\ currentData.schema = <<"Sales", "sales">>

----------------------------------------------------------------------------
(* Questions whose statement the engine refuses *)

\* The number of assistant messages of the chat.
AiCount(messages) ==
    Cardinality({i \in 1..Len(messages) : messages[i].sender = "ai"})

\* This step is the end of a sendMessage call: its assistant message appears.
SendEnds == AiCount(chatMessages') = AiCount(chatMessages) + 1

\* The message of the error the engine raises in this step, "" if none.
EngineRefuses == engineError(lastSend'.sqlQuery, db)

\* C12: when the engine refuses the statement of a question, the send ends
\* with one more assistant message, which carries 'SQL Error: ' and the
\* message of the engine; no earlier message changes, the registry, the
\* database and the displayed results stay as they were and the loading
\* indicator is hidden.
C12_ExecutionErrorIsAMessage ==
    [][(SendEnds /\ EngineRefuses # "") =>
           /\ lastSend'.error = "SQL Error: " \o EngineRefuses
           /\ chatMessages'[Len(chatMessages')] =
                  [sender |-> "ai", kind |-> "error",
                   text |-> "Sorry, I encountered an error: SQL Error: "
                                \o EngineRefuses]
           /\ SubSeq(chatMessages', 1, Len(chatMessages)) = chatMessages
           /\ currentData' = currentData
           /\ db' = db
           /\ results' = results
           /\ loading' = FALSE]_vars

\* A question ended in an SQL error message and the question asked after it
\* was answered with rows.
C12_Witness ==
    \E i \in 1..Len(chatMessages) :
        /\ chatMessages[i].kind = "error"
        /\ StartsWith(chatMessages[i].text,
                      "Sorry, I encountered an error: SQL Error: ")
        /\ Len(chatMessages) >= i + 2
        /\ chatMessages[i + 1].sender = "user"
        /\ chatMessages[i + 2].kind = "results"
        /\ results = [query |-> chatMessages[i + 2].text]
        /\ ~loading

----------------------------------------------------------------------------
(* The exact-match step of the column resolver *)

\* The places of the schema whose column name, lower-cased, occurs in the
\* lower-cased question.
NamedColumns(question, schema) ==
    {i \in 1..Len(schema) : includes(toLowerCase(question), toLowerCase(schema[i]))}

\* C13: when column names occur in the question, whatever their letter case,
\* findColumnInQuestion returns the first of them in schema order, spelled as
\* in the schema; for [Software, Category, Installs] and 'chart by category'
\* it is Category and the statement is the grouped count over "Category".
C13_FirstNamedColumnInSchemaOrder ==
    ResolverCalled =>
        LET named == NamedColumns(chatInput, currentData.schema)
        IN /\ named # {} =>
                  \E i \in named :
                      /\ \A k \in named : i <= k
                      /\ call.result = currentData.schema[i]
           /\ ( /\ currentData.schema = <<"Software", "Category", "Installs">>
                /\ chatInput = "chart by category" ) =>
                  /\ call.result = "Category"
                  /\ generateSQLWithPatterns(chatInput, currentData.schema) =
                         "SELECT \"Category\", COUNT(*) as count FROM user_data"
                             \o " GROUP BY \"Category\" ORDER BY count DESC"

\* Two column names occur in the question; the one that comes first in the
\* schema is returned although it comes last in the question and is typed in
\* another letter case.
C13_Witness ==
    /\ ResolverCalled
    /\ currentData.schema = <<"Category", "Sales">>
    /\ chatInput = "sales category"
    /\ call.result = "Category"

\* The example of the claim.
C13_WitnessExample ==
    /\ ResolverCalled
    /\ currentData.schema = <<"Software", "Category", "Installs">>
    /\ chatInput = "chart by category"
    /\ call.result = "Category"

----------------------------------------------------------------------------
(* The excluding variant of the column resolver *)

SecondCalled == call.fn = "findSecondColumnInQuestion"

\* What steps 1 and 2 of the column resolver give on columns: the first
\* column named in the question, else the first column a synonym pair
\* matches, else none.
MatchingSteps(question, columns) ==
    LET q == toLowerCase(question)
        at == 1..Len(columns)
        exact ==
            FirstColumn(columns, {i \in at : includes(q, toLowerCase(columns[i]))},
                        null)
        synonym ==
            FirstColumn(columns, {i \in at : SynonymMatch(q, columns[i])}, null)
    IN IF exact # null THEN exact ELSE synonym

\* C14: findSecondColumnInQuestion returns what steps 1 and 2 of the column
\* resolver give on the schema without excludeColumn (none when neither
\* matches), and never excludeColumn.
C14_SecondColumnByMatchingSteps ==
    SecondCalled =>
        /\ call.result =
               MatchingSteps(chatInput,
                             FilterOut(currentData.schema, call.excludeColumn))
        /\ call.result # call.excludeColumn

\* What the code does: step 1 only.
C14_SecondColumnByNameOnly ==
    SecondCalled =>
        LET columns == FilterOut(currentData.schema, call.excludeColumn)
            named == NamedColumns(chatInput, columns)
        IN /\ named = {} => call.result = null
           /\ named # {} =>
                  \E i \in named :
                      /\ \A k \in named : i <= k
                      /\ call.result = columns[i]
           /\ call.result # call.excludeColumn

\* A synonym pair matches a remaining column whose name is not in the
\* question, and none is returned.
C14_SynonymNotTried ==
    /\ SecondCalled
    /\ currentData.schema = <<"Sales", "Product Type">>
    /\ call.excludeColumn = "Sales"
    /\ chatInput = "sales by type"
    /\ call.result = null

----------------------------------------------------------------------------
(* Numbers taken from the question *)

\* The lower-cased question of the call.
Asked == toLowerCase(chatInput)

\* The statement of the first/top rule for the number the question holds.
LimitSQL(q) ==
    "SELECT * FROM user_data LIMIT "
        \o (IF HasNumber(q) THEN ToString(extractNumber(q)) ELSE "10")

\* C15: a question of the show + first/top rule gives SELECT * FROM user_data
\* LIMIT n, n the value of its first run of digits, for every n >= 0, and
\* LIMIT 10 only when it has no digit.
C15_LimitIsTheNumber ==
    (SynthCalled /\ TableRow(Asked) = 4) => call.result = LimitSQL(Asked)

\* What the code does: the same, but for the number 0, which gives LIMIT 10.
C15_LimitIsTheNumberUnlessZero ==
    (SynthCalled /\ TableRow(Asked) = 4) =>
        call.result = IF FirstNumberIsZero(Asked)
                      THEN "SELECT * FROM user_data LIMIT 10"
                      ELSE LimitSQL(Asked)

C15_ZeroGivesTen ==
    /\ SynthCalled
    /\ chatInput = "show top 0"
    /\ call.result = "SELECT * FROM user_data LIMIT 10"

\* The statement of the comparison rules: op is > or <, dir is DESC or ASC.
ComparisonSQL(q, schema, op, dir) ==
    LET col == findColumnInQuestion(q, schema)
    IN "SELECT * FROM user_data WHERE \"" \o col \o "\" " \o op \o " "
           \o ToString(extractNumber(q)) \o " ORDER BY \"" \o col \o "\" " \o dir

\* C16: a question that reaches the greater-than rule with a number n gives
\* WHERE "<col>" > n ORDER BY "<col>" DESC, one that reaches the less-than
\* rule gives the mirror statement with < and ASC, for every n >= 0.
C16_ComparisonWithTheNumber ==
    (SynthCalled /\ Len(currentData.schema) > 0) =>
        /\ TableRow(Asked) = 13 =>
               call.result = ComparisonSQL(Asked, currentData.schema, ">", "DESC")
        /\ TableRow(Asked) = 14 =>
               call.result = ComparisonSQL(Asked, currentData.schema, "<", "ASC")

\* What the code does: the same for every number but 0.
C16_ComparisonUnlessZero ==
    (SynthCalled /\ Len(currentData.schema) > 0 /\ ~FirstNumberIsZero(Asked)) =>
        /\ TableRow(Asked) = 13 =>
               call.result = ComparisonSQL(Asked, currentData.schema, ">", "DESC")
        /\ TableRow(Asked) = 14 =>
               call.result = ComparisonSQL(Asked, currentData.schema, "<", "ASC")

\* The example of the claim comes out as the claim says.
C16_Example ==
    generateSQLWithPatterns("find records where Price > 100", <<"Price">>) =
        "SELECT * FROM user_data WHERE \"Price\" > 100 ORDER BY \"Price\" DESC"

C16_ZeroFallsThrough ==
    /\ SynthCalled
    /\ currentData.schema = <<"Price">>
    /\ chatInput = "more than 0"
    /\ call.result = "SELECT * FROM user_data LIMIT 20"

----------------------------------------------------------------------------
(* Which column is averaged and which one groups *)

\* The grouped average of column x by column y.
GroupedAverage(x, y) ==
    "SELECT \"" \o y \o "\", AVG(\"" \o x \o "\") as avg_" \o x
        \o " FROM user_data GROUP BY \"" \o y \o "\" ORDER BY avg_" \o x \o " DESC"

\* C17: 'average sales by region' on a schema with Sales and Region averages
\* "Sales" and groups by "Region", in whichever order the schema holds the
\* two columns; likewise 'average sales by Category' with Sales and Category.
C17_AverageXByY ==
    SynthCalled =>
        /\ ( /\ chatInput = "average sales by region"
             /\ {"Sales", "Region"} \subseteq Range(currentData.schema) ) =>
               call.result = GroupedAverage("Sales", "Region")
        /\ ( /\ chatInput = "average sales by Category"
             /\ {"Sales", "Category"} \subseteq Range(currentData.schema) ) =>
               call.result = GroupedAverage("Sales", "Category")

\* What the code does: the named column that comes first in the schema is
\* averaged and the next named column groups, whatever their order in the
\* question.
C17_AverageBySchemaOrder ==
    (SynthCalled /\ chatInput = "average sales by region") =>
        /\ currentData.schema = <<"Sales", "Region">> =>
               call.result = GroupedAverage("Sales", "Region")
        /\ currentData.schema = <<"Region", "Sales">> =>
               call.result = GroupedAverage("Region", "Sales")

C17_RegionAveraged ==
    /\ SynthCalled
    /\ chatInput = "average sales by region"
    /\ currentData.schema = <<"Region", "Sales">>
    /\ call.result = GroupedAverage("Region", "Sales")

----------------------------------------------------------------------------
(* Quoting of the column names in the statement *)

\* The positions of s where the text w begins.
Occurrences(w, s) ==
    { i \in 1..(Len(s) - Len(w) + 1) : SubSeq(s, i, i + Len(w) - 1) = w }

\* The occurrence of w at position i of s stands between double quotes.
QuotedAt(w, s, i) ==
    /\ i > 1
    /\ i + Len(w) <= Len(s)
    /\ SubSeq(s, i - 1, i - 1) = "\""
    /\ SubSeq(s, i + Len(w), i + Len(w)) = "\""

\* The statement names the table user_data after its FROM and no other.
OnlyUserData(s) ==
    /\ Occurrences(" FROM ", s) # {}
    /\ \A i \in Occurrences(" FROM ", s) :
           SubSeq(s, i + 6, i + 14) = "user_data"

\* C18: in every statement of generateSQLWithPatterns every place where a
\* schema column name is inserted has the name between double quotes, and the
\* only table named is user_data.
C18_EveryColumnNameQuoted ==
    SynthCalled =>
        /\ OnlyUserData(call.result)
        /\ \A i \in 1..Len(currentData.schema) :
             \A p \in Occurrences(currentData.schema[i], call.result) :
                 QuotedAt(currentData.schema[i], call.result, p)

\* What the code does: a column name stands between double quotes everywhere
\* but in the aliases avg_<column>, average_<column> and total_<column>.
AliasAt(w, s, i) ==
    \E a \in {"avg_", "average_", "total_"} :
        /\ i > Len(a)
        /\ SubSeq(s, i - Len(a), i - 1) = a

C18_QuotedButInAliases ==
    SynthCalled =>
        /\ OnlyUserData(call.result)
        /\ \A i \in 1..Len(currentData.schema) :
             \A p \in Occurrences(currentData.schema[i], call.result) :
                 \/ QuotedAt(currentData.schema[i], call.result, p)
                 \/ AliasAt(currentData.schema[i], call.result, p)

C18_AliasWithSpace ==
    /\ SynthCalled
    /\ currentData.schema = <<"Sales", "Product Type">>
    /\ chatInput = "average type"
    /\ call.result = "SELECT AVG(\"Product Type\") as average_Product Type FROM user_data"

----------------------------------------------------------------------------
(* Letter case of the text copied into the statement *)

\* The value between '%...%' of the LIKE pattern of a statement.
LikeValue(sql) ==
    LET from == CHOOSE i \in Occurrences(" LIKE '%", sql) : TRUE
    IN SubSeq(sql, from + 8, Len(sql) - 2)

HasLike(sql) == Occurrences(" LIKE '%", sql) # {}

\* C19: the quoted search value stands in the LIKE pattern with the letter
\* case the user typed, and column names stand with the schema's letter case.
C19_TypedCaseKept ==
    (SynthCalled /\ HasLike(call.result)) =>
        /\ LikeValue(call.result) = extractQuotedValue(chatInput)
        /\ QuotedIdentifiers(call.result) \subseteq Range(currentData.schema)

\* What the code does: the search value is cut out of the lower-cased
\* question; column names keep the schema's letter case.
C19_ValueIsLowerCased ==
    (SynthCalled /\ HasLike(call.result)) =>
        /\ LikeValue(call.result) = toLowerCase(extractQuotedValue(chatInput))
        /\ QuotedIdentifiers(call.result) \subseteq Range(currentData.schema)

C19_AbcBecomesLower ==
    /\ SynthCalled
    /\ currentData.schema = <<"Sales", "Category">>
    /\ chatInput = "find Category 'Abc'"
    /\ call.result = "SELECT * FROM user_data WHERE \"Category\" LIKE '%abc%'"

----------------------------------------------------------------------------
(* An average or sum question whose grouping column is not found *)

\* The question reaches an average or sum block with a column and a group
\* word, and the excluding resolver finds no second column.
GroupUnresolved(q, schema) ==
    LET column == findColumnInQuestion(q, schema)
    IN /\ hasAverageWord(q) \/ includes(q, "sum") \/ includes(q, "total")
       /\ hasGroupWord(q)
       /\ Truthy(column)
       /\ ~Truthy(findSecondColumnInQuestion(q, column, schema))

\* The blocks before the average block return nothing.
ReachesAverage(q, schema) ==
    /\ chartRule(q, schema) = null
    /\ showRule(q, schema) = null
    /\ countRule(q, schema) = null

\* The statement of the blocks that come after the sum block.
AfterAggregates(q, schema) ==
    LET rs == << maxRule(q, schema), minRule(q, schema), distinctRule(q, schema),
                 greaterRule(q, schema), lessRule(q, schema), sortRule(q, schema),
                 searchRule(q, schema), byRule(q, schema) >>
        hit == { i \in 1..Len(rs) : rs[i] # null }
    IN IF hit = {} THEN defaultRule
       ELSE rs[CHOOSE i \in hit : \A k \in hit : i <= k]

\* The ungrouped statement of the average block, or of the sum block when the
\* question has no average word.
PlainAggregate(q, schema) ==
    LET column == findColumnInQuestion(q, schema)
    IN IF hasAverageWord(q)
       THEN "SELECT AVG(\"" \o column \o "\") as average_" \o column \o " FROM user_data"
       ELSE "SELECT SUM(\"" \o column \o "\") as total_" \o column \o " FROM user_data"

\* C20: when an average or sum question has 'group' or 'by' and the grouping
\* column is not resolved, the average/sum block gives no statement and the
\* statement is that of the next block that matches.
C20_UnresolvedGroupFallsThrough ==
    ( /\ SynthCalled
      /\ GroupUnresolved(Asked, currentData.schema)
      /\ ReachesAverage(Asked, currentData.schema) ) =>
        call.result = AfterAggregates(Asked, currentData.schema)

\* What the code does: the block gives its ungrouped statement.
C20_UnresolvedGroupGivesPlain ==
    ( /\ SynthCalled
      /\ GroupUnresolved(Asked, currentData.schema)
      /\ ReachesAverage(Asked, currentData.schema) ) =>
        call.result = PlainAggregate(Asked, currentData.schema)

C20_PlainAverage ==
    /\ SynthCalled
    /\ currentData.schema = <<"Sales", "Category">>
    /\ chatInput = "average sales by"
    /\ call.result = "SELECT AVG(\"Sales\") as average_Sales FROM user_data"

----------------------------------------------------------------------------
(* Result display: determineChartType *)

\* The values a row of executeQuery holds: null, a number (an aggregate), a
\* text (every column of user_data is TEXT).
nullCell == [t |-> "null"]
numberCell(n) == [t |-> "number", n |-> n]
textCell(s) == [t |-> "string", s |-> s]

\* Number(s) is a number: blank text gives 0, a run of digits its value.
IsNumericText(s) ==
    LET t == trim(s)
    IN \A i \in 1..Len(t) : IsDigit(Char(t, i))

\* isNaN(value): Number(null) is 0, Number(text) is NaN unless the text is
\* numeric.
isNaN(cell) == cell.t = "string" /\ ~IsNumericText(cell.s)

\* determineChartType returning null.
noChart == [isNull |-> TRUE]

barChart(columns) ==
    [type |-> "bar", labelColumn |-> columns[1], valueColumn |-> columns[2]]

\* columns.some(col => results.some(row => isNaN(row[col]) && row[col] !== null))
hasStringColumn(rows, columns) ==
    \E i \in 1..Len(columns) : \E r \in 1..Len(rows) :
        isNaN(rows[r][columns[i]]) /\ rows[r][columns[i]] # nullCell

\* columns.some(col => results.some(row => !isNaN(row[col]) && row[col] !== null))
hasNumericColumn(rows, columns) ==
    \E i \in 1..Len(columns) : \E r \in 1..Len(rows) :
        ~isNaN(rows[r][columns[i]]) /\ rows[r][columns[i]] # nullCell

\* The largest result the AI-enabled copy charts.
ChartRowLimit == 50

\* determineChartType(results, columns) of copy 1 (pattern-only class) and of
\* copy 2 (AI-enabled class), which also refuses more than 50 rows.
determineChartType(copy, rows, columns) ==
    IF Len(rows) < 2 \/ (copy = 2 /\ Len(rows) > ChartRowLimit) THEN noChart
    ELSE IF hasStringColumn(rows, columns) /\ hasNumericColumn(rows, columns)
              /\ Len(columns) = 2
         THEN barChart(columns)
         ELSE noChart

\* The two class definitions of the file.
Copies == {1, 2}

\* Result sets: the columns of getAsObject and the rows, each a function of
\* the column names.
Cells == { nullCell, numberCell(5), textCell("abc"), textCell("12") }

ColumnLists ==
    { <<"total_rows">>, <<"Category", "count">>, <<"Category", "Sales">>,
      <<"Category", "Sales", "count">> }

\* The largest number of rows written out cell by cell.
MaxRows == 2

RowsOver(columns) == [Range(columns) -> Cells]

\* A result of n rows that repeats the rows given.
Long(rows, n) == [i \in 1..n |-> rows[((i - 1) % Len(rows)) + 1]]

\* The lengths of the longer results.
LongLengths == {5, 6, 50, 51}

ResultSets ==
    UNION { { [columns |-> columns, rows |-> rows] :
                rows \in UNION { [1..n -> RowsOver(columns)] : n \in 1..MaxRows } } :
            columns \in ColumnLists }

LongResultSets ==
    { [columns |-> rs.columns, rows |-> Long(rs.rows, n)] :
        rs \in { x \in ResultSets : Len(x.columns) = 2 /\ Len(x.rows) = 2 },
        n \in LongLengths }

InitDisplay == InitAI

CallDetermineChartType ==
    /\ call = idle
    /\ \E copy \in Copies : \E rs \in ResultSets \cup LongResultSets :
           call' = [fn |-> "determineChartType", copy |-> copy, results |-> rs,
                    result |-> determineChartType(copy, rs.rows, rs.columns)]
    /\ UNCHANGED <<explorer, lastSend, started>>

(* Result display: generateInsights *)

\* `${value}` in a template literal.
cellString(cell) ==
    IF cell.t = "null" THEN "null"
    ELSE IF cell.t = "undefined" THEN "undefined"
    ELSE IF cell.t = "number" THEN ToString(cell.n)
    ELSE cell.s

\* A property the row does not have.
undefinedCell == [t |-> "undefined"]

\* parseInt(value) and, for the values of Cells, parseFloat(value): the value
\* of the leading run of digits; NaN, written noNumber, when there is none.
parseIntCell(cell) ==
    IF cell.t = "number" THEN cell.n
    ELSE IF cell.t = "string"
    THEN LET t == trimStart(cell.s)
             run == { j \in 1..Len(t) : \A k \in 1..j : IsDigit(Char(t, k)) }
         IN IF run = {} THEN noNumber
            ELSE parseInt(SubSeq(t, 1, CHOOSE j \in run : \A k \in run : k <= j))
    ELSE noNumber

\* x || 0 for a number x: NaN and 0 give 0.
orZero(x) == IF x = noNumber THEN 0 ELSE x

\* Number.prototype.toLocaleString for an integer below a million; NaN gives "NaN".
toLocaleString(n) ==
    IF n = noNumber THEN "NaN"
    ELSE IF n < 1000 THEN ToString(n)
    ELSE LET low == n % 1000
         IN ToString(n \div 1000) \o ","
                \o (IF low < 10 THEN "00" ELSE IF low < 100 THEN "0" ELSE "")
                \o ToString(low)

\* row[col] for a column name, Object.values(row)[i - 1] for a position.
field(row, columns, col) == IF col \in Range(columns) THEN row[col] ELSE undefinedCell
valueAt(row, columns, i) == IF i <= Len(columns) THEN row[columns[i]] ELSE undefinedCell

RECURSIVE sumOrZero(_, _)
\* reduce((sum, row) => sum + (parseInt(cell of row) || 0), 0) over the first
\* n cells.
sumOrZero(cells, n) ==
    IF n = 0 THEN 0
    ELSE sumOrZero(cells, n - 1) + orZero(parseIntCell(cells[n]))

\* row.count of every row; Object.values(row)[1] of every row.
countCells(rows, columns) == [r \in 1..Len(rows) |-> field(rows[r], columns, "count")]
secondCells(rows, columns) == [r \in 1..Len(rows) |-> valueAt(rows[r], columns, 2)]

\* results.slice(0, 5).reduce((sum, row) => sum + parseInt(row.count), 0): NaN
\* as soon as one count is not a number.
top5Total(rows, columns) ==
    IF \E r \in 1..5 : parseIntCell(field(rows[r], columns, "count")) = noNumber
    THEN noNumber
    ELSE sumOrZero(countCells(rows, columns), 5)

\* ((top5Total / total) * 100).toFixed(1)
percentage(top5, total) ==
    IF top5 = noNumber \/ total = 0 THEN "NaN"
    ELSE LET tenths == (2 * 1000 * top5 + total) \div (2 * total)
         IN ToString(tenths \div 10) \o "." \o ToString(tenths % 10)

\* The error of count.toLocaleString() for a null count.
nullCountError == "Cannot read properties of null (reading 'toLocaleString')"

\* count.toLocaleString() of the top row: a number in the locale's format, a
\* text as it is.
countString(cell) ==
    IF cell.t = "number" THEN toLocaleString(cell.n) ELSE cellString(cell)

\* The block both copies share: the average insight.
averageInsight(q, rows, columns) ==
    IF (includes(q, "avg") \/ includes(q, "average"))
         /\ ~isNaN(valueAt(rows[1], columns, 1))
    THEN << "Average value: "
              \o toLocaleString(parseIntCell(valueAt(rows[1], columns, 1))) >>
    ELSE <<>>

\* The block both copies share: the single-result insight.
singleInsight(rows, columns) ==
    IF Len(rows) = 1 /\ Len(columns) = 1
    THEN << "Single result: " \o cellString(valueAt(rows[1], columns, 1)) >>
    ELSE <<>>

\* Copy 1: the insights of a result whose first row has a count property.
countInsights(rows, columns) ==
    IF field(rows[1], columns, "count") # undefinedCell
    THEN LET total == sumOrZero(countCells(rows, columns), Len(rows))
         IN << "Found " \o toLocaleString(Len(rows)) \o " unique software titles",
               "Total installations across all software: " \o toLocaleString(total),
               "Most installed software: \"" \o cellString(valueAt(rows[1], columns, 1))
                   \o "\" with " \o countString(rows[1]["count"]) \o " installations" >>
            \o (IF Len(rows) > 5
                THEN << "Top 5 software titles account for "
                          \o percentage(top5Total(rows, columns), total)
                          \o "% of all installations" >>
                ELSE <<>>)
    ELSE <<>>

\* Copy 2: the insight of a statement that holds the word count.
totalCountInsight(q, rows, columns) ==
    IF includes(q, "count")
    THEN << "Total count across all groups: "
              \o toLocaleString(sumOrZero(secondCells(rows, columns), Len(rows))) >>
    ELSE <<>>

RECURSIVE maxGroup(_, _, _)
\* results.reduce((max, row) => (parseFloat(row[valueCol]) || 0) >
\* (parseFloat(max[valueCol]) || 0) ? row : max) over the first n rows.
maxGroup(rows, valueCol, n) ==
    IF n = 1 THEN rows[1]
    ELSE LET max == maxGroup(rows, valueCol, n - 1)
         IN IF orZero(parseIntCell(rows[n][valueCol]))
                  > orZero(parseIntCell(max[valueCol]))
            THEN rows[n] ELSE max

\* Copy 2: the insights of a statement with GROUP BY and more than one row.
groupInsights(q, rows, columns) ==
    IF includes(q, "group by") /\ Len(rows) > 1
    THEN << "Found " \o ToString(Len(rows)) \o " distinct groups in your data" >>
         \o (IF Len(columns) >= 2 /\ ~isNaN(rows[1][columns[2]])
             THEN LET top == maxGroup(rows, columns[2], Len(rows))
                  IN << "Highest value: " \o cellString(valueAt(top, columns, 1))
                          \o " (" \o toLocaleString(parseIntCell(top[columns[2]]))
                          \o ")" >>
             ELSE <<>>)
    ELSE <<>>

\* generateInsights(results, query) of copy 1 and of copy 2, for a result
\* with at least one row: the insights, or the error thrown.
generateInsights(copy, rows, columns, query) ==
    LET q == toLowerCase(query)
    IN IF copy = 1 /\ field(rows[1], columns, "count") = nullCell
       THEN [insights |-> <<>>, error |-> nullCountError]
       ELSE [insights |->
                 (IF copy = 1 THEN countInsights(rows, columns)
                              ELSE totalCountInsight(q, rows, columns))
                 \o averageInsight(q, rows, columns)
                 \o (IF copy = 2 THEN groupInsights(q, rows, columns) ELSE <<>>)
                 \o singleInsight(rows, columns),
             error |-> ""]

\* The statements the results belong to.
Queries ==
    { "SELECT * FROM user_data",
      "SELECT \"Category\", COUNT(*) as count FROM user_data GROUP BY \"Category\" ORDER BY count DESC",
      "SELECT COUNT(*) as total_rows FROM user_data",
      "SELECT AVG(\"Sales\") as average_Sales FROM user_data" }

CallGenerateInsights ==
    /\ call = idle
    /\ \E query \in Queries : \E copy \in Copies :
         \E rs \in ResultSets \cup LongResultSets :
           call' = [fn |-> "generateInsights", copy |-> copy, results |-> rs,
                    query |-> query,
                    result |-> generateInsights(copy, rs.rows, rs.columns, query)]
    /\ UNCHANGED <<explorer, lastSend, started>>

NextDisplay == CallDetermineChartType \/ CallGenerateInsights

\* Calls of the functions displayResults runs on a result.
SpecDisplay == InitDisplay /\ [][NextDisplay]_vars

----------------------------------------------------------------------------
(* The chart decision *)

ChartCalled == call.fn = "determineChartType"

\* The column holds a non-null value that is not numeric.
HasTextValue(rows, col) ==
    \E r \in 1..Len(rows) : rows[r][col] # nullCell /\ isNaN(rows[r][col])

\* The column holds a non-null numeric value.
HasNumericValue(rows, col) ==
    \E r \in 1..Len(rows) : rows[r][col] # nullCell /\ ~isNaN(rows[r][col])

\* One column has a text value and the other column a numeric value.
TextAndNumberInTwoColumns(rows, columns) ==
    \E i, j \in 1..Len(columns) :
        /\ i # j
        /\ HasTextValue(rows, columns[i])
        /\ HasNumericValue(rows, columns[j])

\* C21: determineChartType returns the bar-chart spec {labelColumn,
\* valueColumn} if and only if the result has at least 2 rows, exactly 2
\* columns, and one column has a non-null non-numeric value while the other
\* column has a non-null numeric value; otherwise it returns no chart.
C21_ChartIffEligible ==
    ChartCalled =>
        LET rows == call.results.rows
            columns == call.results.columns
        IN IF /\ Len(rows) >= 2
              /\ Len(columns) = 2
              /\ TextAndNumberInTwoColumns(rows, columns)
           THEN call.result = barChart(columns)
           ELSE call.result = noChart

\* What the code does: no chart below 2 rows, for 1 or 3 columns, and for a
\* result without a text value or without a numeric value; a chart for every
\* eligible result of at most 50 rows.
C21_ChartOnlyIfTwoColumns ==
    ChartCalled =>
        LET rows == call.results.rows
            columns == call.results.columns
        IN /\ (Len(rows) < 2 \/ Len(columns) # 2) => call.result = noChart
           /\ call.result # noChart =>
                  /\ call.result = barChart(columns)
                  /\ \E i \in 1..2 : HasTextValue(rows, columns[i])
                  /\ \E i \in 1..2 : HasNumericValue(rows, columns[i])
           /\ ( /\ Len(rows) >= 2
                /\ Len(rows) <= ChartRowLimit
                /\ Len(columns) = 2
                /\ TextAndNumberInTwoColumns(rows, columns) ) =>
                  call.result = barChart(columns)

\* One column with a text and a number, the other column all null: a chart.
C21_SameColumnCharted ==
    /\ ChartCalled
    /\ call.results.columns = <<"Category", "Sales">>
    /\ Len(call.results.rows) = 2
    /\ call.results.rows[1] = [Category |-> textCell("abc"), Sales |-> nullCell]
    /\ call.results.rows[2] = [Category |-> textCell("12"), Sales |-> nullCell]
    /\ call.result = barChart(call.results.columns)

\* The AI-enabled copy gives no chart for an eligible result of 51 rows.
C21_LongResultNotCharted ==
    /\ ChartCalled
    /\ call.copy = 2
    /\ Len(call.results.rows) = 51
    /\ TextAndNumberInTwoColumns(call.results.rows, call.results.columns)
    /\ call.result = noChart

\* A text column and a numeric column, 5 rows: the bar chart of the two.
C21_FiveRowsCharted ==
    /\ ChartCalled
    /\ Len(call.results.rows) = 5
    /\ call.results.columns = <<"Category", "count">>
    /\ \A r \in 1..5 : call.results.rows[r] =
                           [Category |-> textCell("abc"), count |-> numberCell(5)]
    /\ call.result = [type |-> "bar", labelColumn |-> "Category",
                      valueColumn |-> "count"]

----------------------------------------------------------------------------
(* Calls of extractQuotedValue *)

\* The characters the texts are made of.
TextChars == << "'", "\"", "a", " " >>

\* The largest length of a text.
MaxText == 5

RECURSIVE TextsOfLength(_)
TextsOfLength(n) ==
    IF n = 0 THEN {""}
    ELSE { t \o TextChars[i] : t \in TextsOfLength(n - 1), i \in 1..Len(TextChars) }

Texts == UNION { TextsOfLength(n) : n \in 0..MaxText }

InitExtract ==
    /\ \E t \in Texts : Loaded(<<"Sales", "Category">>, t)
    /\ call = idle

CallExtractQuotedValue ==
    /\ call = idle
    /\ call' = [fn |-> "extractQuotedValue", result |-> extractQuotedValue(chatInput)]
    /\ UNCHANGED <<explorer, lastSend, started>>

\* Calls of the value extractor on a text.
SpecExtract == InitExtract /\ [][CallExtractQuotedValue]_vars

----------------------------------------------------------------------------
(* The quoted value *)

ExtractCalled == call.fn = "extractQuotedValue"

\* text[i] opens and text[j] closes a non-empty quotation without a quote
\* inside, both with the same quote character.
SameKindMatch(s, i, j) == QuotedMatch(s, i, j) /\ Char(s, i) = Char(s, j)

\* The content of the first quotation between two quotes of the same kind.
FirstSameKindQuotation(s) ==
    LET opens == { i \in 1..Len(s) : \E j \in i..Len(s) : SameKindMatch(s, i, j) }
    IN IF opens = {} THEN null
       ELSE LET i == CHOOSE a \in opens : \A b \in opens : a <= b
                j == CHOOSE b \in i..Len(s) : SameKindMatch(s, i, b)
            IN SubSeq(s, i + 1, j - 1)

\* C22: extractQuotedValue returns the content of the first substring between
\* an opening and a closing quote of the same kind, none when the text has no
\* such substring, and never a value between one single and one double quote.
C22_QuotesOfTheSameKind ==
    ExtractCalled => call.result = FirstSameKindQuotation(chatInput)

\* What the code does: the content between the first two neighbouring quote
\* characters, of whatever kind, that have something between them.
C22_AnyTwoQuotes ==
    ExtractCalled =>
        LET s == chatInput
            pairs == { p \in (1..Len(s)) \X (1..Len(s)) : QuotedMatch(s, p[1], p[2]) }
        IN IF pairs = {} THEN call.result = null
           ELSE \E p \in pairs :
                    /\ \A o \in pairs : p[1] <= o[1]
                    /\ call.result = SubSeq(s, p[1] + 1, p[2] - 1)
                    /\ call.result # ""
                    /\ ~includes(call.result, "'")
                    /\ ~includes(call.result, "\"")

\* A single quote closed by a double quote.
C22_MixedQuotes ==
    /\ ExtractCalled
    /\ chatInput = "'a\""
    /\ call.result = "a"

----------------------------------------------------------------------------
(* The count insights *)

InsightsCalled == call.fn = "generateInsights"

\* An insight about the counts: the number of rows, the sum, the top row, the
\* share of the top 5, in the wording of either copy.
IsCountInsight(s) ==
    \/ StartsWith(s, "Found ")
    \/ StartsWith(s, "Total ")
    \/ StartsWith(s, "Most installed")
    \/ StartsWith(s, "Highest value")
    \/ StartsWith(s, "Top 5")

CountInsightsOf(insights) ==
    Cardinality({ i \in 1..Len(insights) : IsCountInsight(insights[i]) })

\* C23: generateInsights emits the count insights exactly when the result
\* rows carry a count field, three of them for 1 to 5 rows and four for more
\* than 5 rows, and none of them for a result without a count field, whatever
\* the SQL text is.
C23_CountInsightsIffCountField ==
    InsightsCalled =>
        LET rows == call.results.rows
            columns == call.results.columns
        IN /\ call.result.error = ""
           /\ CountInsightsOf(call.result.insights) =
                  IF "count" \in Range(columns)
                  THEN (IF Len(rows) > 5 THEN 4 ELSE 3)
                  ELSE 0

\* What the code does: the first copy does so, with the four texts in this
\* order, unless the count of the top row is null.
C23_FirstCopyCountInsights ==
    (InsightsCalled /\ call.copy = 1) =>
        LET rows == call.results.rows
            columns == call.results.columns
            insights == call.result.insights
        IN IF "count" \notin Range(columns)
           THEN call.result.error = "" /\ CountInsightsOf(insights) = 0
           ELSE IF rows[1]["count"] = nullCell
           THEN call.result.error = nullCountError
           ELSE /\ call.result.error = ""
                /\ CountInsightsOf(insights) = IF Len(rows) > 5 THEN 4 ELSE 3
                /\ insights[1] = "Found " \o ToString(Len(rows)) \o " unique software titles"
                /\ StartsWith(insights[2], "Total installations across all software: ")
                /\ StartsWith(insights[3], "Most installed software: \""
                                               \o cellString(rows[1][columns[1]]) \o "\" with ")
                /\ Len(rows) > 5 => StartsWith(insights[4], "Top 5 software titles account for ")

\* First copy, six rows of count 5: four insights, the top 5 hold 83.3%.
C23_SixRows ==
    /\ InsightsCalled
    /\ call.copy = 1
    /\ call.results.columns = <<"Category", "count">>
    /\ Len(call.results.rows) = 6
    /\ \A r \in 1..6 : call.results.rows[r] =
                           [Category |-> textCell("abc"), count |-> numberCell(5)]
    /\ call.result.insights =
           << "Found 6 unique software titles",
              "Total installations across all software: 30",
              "Most installed software: \"abc\" with 5 installations",
              "Top 5 software titles account for 83.3% of all installations" >>

\* Second copy, a dataset with a column count, SELECT *: no insight.
C23_SecondCopyNoCountInsight ==
    /\ InsightsCalled
    /\ call.copy = 2
    /\ call.query = "SELECT * FROM user_data"
    /\ call.results.columns = <<"Category", "count">>
    /\ Len(call.results.rows) = 2
    /\ \A r \in 1..2 : call.results.rows[r] =
                           [Category |-> textCell("abc"), count |-> textCell("12")]
    /\ call.result.insights = <<>>

\* Second copy, the row count of the table: a total of 0 over a second column
\* that does not exist.
C23_SecondCopyCountWithoutField ==
    /\ InsightsCalled
    /\ call.copy = 2
    /\ call.query = "SELECT COUNT(*) as total_rows FROM user_data"
    /\ call.results.columns = <<"total_rows">>
    /\ call.results.rows = << [total_rows |-> numberCell(5)] >>
    /\ call.result.insights =
           << "Total count across all groups: 0", "Single result: 5" >>

\* Second copy, the grouped count with six rows: three insights, no share.
C23_SecondCopySixRows ==
    /\ InsightsCalled
    /\ call.copy = 2
    /\ includes(call.query, "GROUP BY")
    /\ call.results.columns = <<"Category", "count">>
    /\ Len(call.results.rows) = 6
    /\ \A r \in 1..6 : call.results.rows[r] =
                           [Category |-> textCell("abc"), count |-> numberCell(5)]
    /\ call.result.insights =
           << "Total count across all groups: 30",
              "Found 6 distinct groups in your data",
              "Highest value: abc (5)" >>

\* First copy, a null count in the top row: generateInsights throws.
C23_NullCountThrows ==
    /\ InsightsCalled
    /\ call.copy = 1
    /\ call.results.columns = <<"Category", "count">>
    /\ call.results.rows[1] = [Category |-> textCell("abc"), count |-> nullCell]
    /\ call.result.error = nullCountError

----------------------------------------------------------------------------
(* The schema a statement is generated from and the table it is run on *)

\* C24: under every interleaving of an upload and a question, the statement
\* executed for a question was generated from the column list of the table it
\* is executed against: a send never combines the schema of one dataset with
\* the table of another.
C24_GeneratedFromTheTableQueried ==
    [][(SendEnds /\ db # nullDb) => lastSend'.generatedFrom = db.table]_vars

\* What the code does: the statement is generated from the columns of the
\* table it runs on when it comes from the patterns and the table was
\* created; a statement of the backend comes from the prompt, written before
\* the await.
C24_PatternsReadTheTableCreated ==
    [][(SendEnds /\ db # nullDb /\ db.table # noTable
          /\ lastSend'.aiOutcome # "answered")
         => lastSend'.generatedFrom = db.table]_vars

\* The registry names the columns of the table unless CREATE TABLE failed.
C24_RegistryIsTheTableCreated ==
    (db # nullDb /\ db.table # noTable) =>
        (currentData # nullData /\ currentData.schema = db.table)

\* A statement the backend wrote for Sales and Category has run on the table
\* of the dataset uploaded meanwhile, which has the column Price only.
C24_OldPromptNewTable ==
    /\ Answered
    /\ lastSend.aiOutcome = "answered"
    /\ lastSend.generatedFrom = <<"Sales", "Category">>
    /\ lastSend.error = ""
    /\ db.table = <<"Price">>
    /\ currentData.schema = <<"Price">>

\* The chat is open, the registry names columns and the database has no table.
C24_ChatOpenWithoutTable ==
    /\ chatSection
    /\ currentData # nullData
    /\ db # nullDb
    /\ db.table = noTable
    /\ currentData.schema # db.table

----------------------------------------------------------------------------
(* The pattern-only class: sendMessage, executeQuery, displayResults *)

\* The values of a table: every column is TEXT and an empty field is stored
\* as NULL (row[col] || null).
TableCells == { nullCell, textCell("abc"), textCell("12") }

TableColumns == { <<"Category", "count">>, <<"Category", "Sales">> }

\* The questions typed (the last one is blank); each gives SELECT * FROM
\* user_data, with or without LIMIT.
PatternQuestions == { "show all", "show top 1", "hello", "  " }

\* The rows executeQuery returns for SELECT * FROM user_data [LIMIT n] on a
\* table with the rows data.
selectRows(sql, data) ==
    IF sql = "SELECT * FROM user_data" THEN data
    ELSE LET n == extractNumber(SubSeq(sql, Len("SELECT * FROM user_data") + 1, Len(sql)))
         IN SubSeq(data, 1, IF n < Len(data) THEN n ELSE Len(data))

\* The first assistant message of sendMessage (pattern-only class).
foundMessage(question, rows) ==
    IF includes(toLowerCase(question), "chart") \/ includes(toLowerCase(question), "bar")
    THEN "Created visualization with " \o toLocaleString(Len(rows)) \o " data points"
    ELSE "Found " \o toLocaleString(Len(rows)) \o " results"

\* displayResults(results, query): the message of the error it throws, ""
\* when it returns.
displayResults(rows, columns, query) ==
    IF Len(rows) = 0 THEN ""
    ELSE generateInsights(1, rows, columns, query).error

\* A dataset with its rows loaded, the chat open, nothing asked yet.
InitPatternOnly ==
    /\ \E columns \in TableColumns : \E n \in 1..MaxRows :
         \E data \in [1..n -> [Range(columns) -> TableCells]] :
           /\ db = [table |-> columns, rows |-> n, data |-> data]
           /\ currentData = [schema |-> columns, rowCount |-> n]
    /\ SQL = "ready"
    /\ pipeline = null
    /\ modelLoaded = FALSE
    /\ aiLoads = 0
    /\ hideTimers = 0
    /\ fileInput = noFile
    /\ uploads = <<>>
    /\ chatSection = TRUE
    /\ chatInput = ""
    /\ chatMessages = <<>>
    /\ sends = <<>>
    /\ loading = FALSE
    /\ status = [shown |-> FALSE, text |-> "", type |-> ""]
    /\ results = noResults
    /\ lastSend = noSend
    /\ started = [uploads |-> 1, sends |-> 0]
    /\ call = idle

\* sendMessage of the pattern-only class with typed in the chat input: it has
\* no await that suspends it, the call runs to its end.
sendMessagePatternOnly(typed) ==
    LET question == trim(typed)
        asked == addMessage(chatMessages, question, "user", "question")
    IN /\ chatSection
       /\ started.sends < MaxSends
       /\ started' = [started EXCEPT !.sends = @ + 1]
       /\ IF question = ""
          THEN /\ chatInput' = typed
               /\ UNCHANGED <<chatMessages, loading, results, lastSend>>
          ELSE \E sqlQuery \in { generateSQLWithPatterns(question, currentData.schema) } :
               \E failure \in { executeQuery(sqlQuery, db) } :
               \E rows \in { selectRows(sqlQuery, db.data) } :
               \E thrown \in { displayResults(rows, currentData.schema, sqlQuery) } :
               \E found \in { addMessage(asked, foundMessage(question, rows), "ai",
                                         "results") } :
                 /\ chatInput' = ""
                 /\ loading' = FALSE
                 /\ IF failure # ""
                    THEN /\ chatMessages' = addMessage(asked,
                                "Sorry, I encountered an error: " \o failure, "ai", "error")
                         /\ results' = results
                    ELSE IF thrown # ""
                    THEN /\ chatMessages' = addMessage(found,
                                "Sorry, I encountered an error: " \o thrown, "ai", "error")
                         /\ results' = results
                    ELSE /\ chatMessages' = found
                         /\ results' = [query |-> sqlQuery]
                 /\ lastSend' = [question |-> question, sqlQuery |-> sqlQuery,
                                 error |-> IF failure # "" THEN failure ELSE thrown]
       /\ UNCHANGED <<SQL, db, currentData, pipeline, modelLoaded, aiLoads,
                      hideTimers, fileInput, uploads, chatSection, sends, status, call>>

NextPatternOnly == \E typed \in PatternQuestions : sendMessagePatternOnly(typed)

\* The chat of the pattern-only class on a loaded dataset.
SpecPatternOnly == InitPatternOnly /\ [][NextPatternOnly]_vars

\* The backend call of a pending send settles.
pipelineSettled ==
    \E i \in 1..Len(sends) :
        \/ \E text \in AnswerTexts : pipelineResolved(i, text)
        \/ pipelineRejected(i)

\* The explorer with every call of the backend settling.
SpecSettling == Spec /\ WF_vars(pipelineSettled)

----------------------------------------------------------------------------
(* One answer for every question *)

UserCount(messages) ==
    Cardinality({ i \in 1..Len(messages) : messages[i].sender = "user" })

\* A call of sendMessage with a blank question, and with a question.
BlankCall ==
    /\ started'.sends = started.sends + 1
    /\ trim(chatInput') = ""
    /\ chatInput' # ""

QuestionCall == started'.sends = started.sends + 1 /\ ~BlankCall

\* Every message but the new ones stays as it is.
OnlyAppends ==
    /\ Len(chatMessages') >= Len(chatMessages)
    /\ SubSeq(chatMessages', 1, Len(chatMessages)) = chatMessages

\* In the chat up to each message there are at least as many questions as
\* answers: every answer comes after its question and no question has two.
AnswersFollowQuestions ==
    \A n \in 0..Len(chatMessages) :
        AiCount(SubSeq(chatMessages, 1, n)) <= UserCount(SubSeq(chatMessages, 1, n))

\* C25: every sendMessage call with a non-blank question appends exactly one
\* user message and afterwards, whatever happens, eventually exactly one
\* assistant message, which comes after its user message, and the call ends
\* with the loading indicator hidden; a blank question appends no message and
\* changes no state.
C25_OneAnswerForEveryQuestion ==
    /\ []AnswersFollowQuestions
    /\ [][/\ OnlyAppends
          /\ QuestionCall => UserCount(chatMessages') = UserCount(chatMessages) + 1
          /\ ~QuestionCall => UserCount(chatMessages') = UserCount(chatMessages)
          /\ AiCount(chatMessages') > AiCount(chatMessages) => ~loading'
          /\ BlankCall => UNCHANGED <<SQL, db, currentData, pipeline, modelLoaded,
                                      aiLoads, hideTimers, fileInput, uploads,
                                      chatSection, chatMessages, sends, loading,
                                      status, results, lastSend>>]_vars
    /\ \A k \in 0..MaxSends :
           (UserCount(chatMessages) = k) ~> (AiCount(chatMessages) = k)

\* What the code does: the same, but for a result whose display throws, which
\* gets the message of the results and then the message of the error.
C25_OneAnswerUnlessDisplayThrows ==
    [][QuestionCall =>
          /\ UserCount(chatMessages') = UserCount(chatMessages) + 1
          /\ ~loading'
          /\ AiCount(chatMessages') = AiCount(chatMessages)
                 + (IF /\ executeQuery(lastSend'.sqlQuery, db) = ""
                       /\ lastSend'.error # ""
                    THEN 2 ELSE 1)]_vars

\* A table with a column count whose first row has no count, 'show all': the
\* question, the message of the results, the message of the error.
C25_TwoAnswers ==
    /\ db # nullDb
    /\ db.table = <<"Category", "count">>
    /\ Len(chatMessages) = 3
    /\ chatMessages[1] = [sender |-> "user", kind |-> "question", text |-> "show all"]
    /\ chatMessages[2].sender = "ai"
    /\ chatMessages[2].text = "Found 1 results"
    /\ chatMessages[3].sender = "ai"
    /\ chatMessages[3].text = "Sorry, I encountered an error: " \o nullCountError
    /\ ~loading

----------------------------------------------------------------------------
(* The synonym and fallback steps of the column resolver *)

\* Column names for the synonym steps: each holds a column-side keyword and
\* none is a question-side keyword (but Order Status, status is both).
SynonymColumns == { "Kind", "Created", "App", "Order Status", "Job Title", "Price" }

\* The longest schema of the synonym steps.
MaxColumns == 2

\* Questions with the question-side keywords of the five checks.
SynonymQuestions ==
    { "name", "title", "category", "type", "install", "software", "status",
      "date", "time", "hello", "what Time and Type", "order status" }

SynonymSchemas ==
    UNION { [1..n -> SynonymColumns] : n \in 0..MaxColumns }

InitSynonyms ==
    /\ \E schema \in SynonymSchemas : \E question \in SynonymQuestions :
           Loaded(schema, question)
    /\ call = idle

\* Calls of the column resolver with synonyms in the question.
SpecSynonyms == InitSynonyms /\ [][CallFindColumnInQuestion]_vars

\* The synonym pairs as the claim lists them: question-side keywords and
\* column-side keywords.
SynonymPairs ==
    { [question |-> {"name", "title"}, column |-> {"name", "title", "software"}],
      [question |-> {"category", "type"}, column |-> {"category", "type", "kind"}],
      [question |-> {"install", "software"},
       column |-> {"install", "software", "app", "program"}],
      [question |-> {"status"}, column |-> {"status"}],
      [question |-> {"date", "time"}, column |-> {"date", "time", "created"}] }

CategoricalKeywords ==
    { "name", "title", "software", "app", "program", "category", "type", "status" }

\* The places of the columns for which some synonym pair matches the question.
PairedColumns(question, schema) ==
    { i \in 1..Len(schema) :
        \E pair \in SynonymPairs :
            /\ \E k \in pair.question : includes(toLowerCase(question), k)
            /\ \E k \in pair.column : includes(toLowerCase(schema[i]), k) }

\* The places of the columns whose name holds a categorical keyword.
CategoricalColumns(schema) ==
    { i \in 1..Len(schema) :
        \E k \in CategoricalKeywords : includes(toLowerCase(schema[i]), k) }

\* C26: when no column name occurs in the question, findColumnInQuestion
\* returns the first column in schema order for which some synonym pair
\* matches; if there is none, the first column in schema order whose name
\* holds a categorical keyword; if there is none, the first column of the
\* schema (columns[0]).
C26_SynonymThenCategoricalThenFirst ==
    (ResolverCalled /\ NamedColumns(chatInput, currentData.schema) = {}) =>
        LET schema == currentData.schema
            paired == PairedColumns(chatInput, schema)
            categorical == CategoricalColumns(schema)
        IN IF paired # {}
           THEN \E i \in paired : /\ \A k \in paired : i <= k
                                  /\ call.result = schema[i]
           ELSE IF categorical # {}
           THEN \E i \in categorical : /\ \A k \in categorical : i <= k
                                       /\ call.result = schema[i]
           ELSE call.result = (IF schema = <<>> THEN undefined ELSE schema[1])

\* Two columns match, each through another pair (Created through date/time,
\* Kind through category/type): the first column of the schema is returned,
\* though the pair of the second comes first in the code.
C26_FirstPairedColumn ==
    /\ ResolverCalled
    /\ currentData.schema = <<"Created", "Kind">>
    /\ chatInput = "what Time and Type"
    /\ call.result = "Created"

\* A synonym match wins over a categorical name that comes earlier.
C26_PairedBeforeCategorical ==
    /\ ResolverCalled
    /\ currentData.schema = <<"App", "Created">>
    /\ chatInput = "date"
    /\ call.result = "Created"

\* No pair matches: the first categorical name.
C26_CategoricalFallback ==
    /\ ResolverCalled
    /\ currentData.schema = <<"Price", "Job Title">>
    /\ chatInput = "hello"
    /\ call.result = "Job Title"

\* Neither: the first column.
C26_FirstColumnFallback ==
    /\ ResolverCalled
    /\ currentData.schema = <<"Price", "Kind">>
    /\ chatInput = "hello"
    /\ call.result = "Price"

----------------------------------------------------------------------------
(* The sort block *)

\* Sort questions: sort or order; then nothing, a direction word, or a keyword
\* of a block that stands before the sort block; then the words for a column.
SortQuestions ==
    { a \o b \o c :
        a \in { "sort", "Order" },
        b \in { "", " desc", " DESCENDING", " highest", " lowest", " maximum",
                " unique", " more than 25", " below 25", " top" },
        c \in { "", " sales", " by category" } }

InitSort ==
    /\ \E schema \in Schemas : \E question \in SortQuestions : Loaded(schema, question)
    /\ call = idle

\* Calls of the synthesizer with sort questions.
SpecSort == InitSort /\ [][CallGenerateSQLWithPatterns]_vars

\* SELECT * FROM user_data ORDER BY "<col>" <dir>
SortStatement(column, dir) ==
    "SELECT * FROM user_data ORDER BY \"" \o column \o "\" " \o dir

\* A question of the sort rule as the claim delimits it: sort or order, and
\* no keyword of the chart, show, count, average and sum blocks.
SortQuestion(q) ==
    /\ includes(q, "sort") \/ includes(q, "order")
    /\ ~(includes(q, "chart") \/ includes(q, "graph") \/ includes(q, "plot"))
    /\ ~(includes(q, "show") \/ includes(q, "display") \/ includes(q, "view"))
    /\ ~includes(q, "count")
    /\ ~(includes(q, "average") \/ includes(q, "avg") \/ includes(q, "mean"))
    /\ ~(includes(q, "sum") \/ includes(q, "total"))

DescWord(q) ==
    includes(q, "desc") \/ includes(q, "descending") \/ includes(q, "highest")

\* C27: a question with sort or order (and no chart, show, count, average or
\* sum keyword), on a schema with columns, yields SELECT * FROM user_data
\* ORDER BY "<col>" DESC when it holds desc, descending or highest, and
\* ORDER BY "<col>" ASC when it holds none of the three.
C27_SortDirection ==
    LET q == toLowerCase(chatInput)
        column == findColumnInQuestion(q, currentData.schema)
    IN (SynthCalled /\ SortQuestion(q) /\ currentData.schema # <<>>) =>
           call.result = SortStatement(column, IF DescWord(q) THEN "DESC" ELSE "ASC")

\* A keyword of the blocks between the sum block and the sort block that
\* returns before the sort block is reached.
EarlierKeyword(q) ==
    \/ includes(q, "maximum") \/ includes(q, "max") \/ includes(q, "highest")
    \/ includes(q, "minimum") \/ includes(q, "min") \/ includes(q, "lowest")
    \/ includes(q, "unique") \/ includes(q, "distinct")
    \/ /\ \/ includes(q, "greater than") \/ includes(q, ">") \/ includes(q, "more than")
          \/ includes(q, "less than") \/ includes(q, "<") \/ includes(q, "below")
       /\ TruthyNum(extractNumber(q))

\* What the code does: the sort statement, with DESC for desc and descending,
\* comes out when no keyword of the maximum, minimum, distinct and comparison
\* blocks is in the question; with highest the statement is never the sort
\* statement, it is the one of the maximum block.
C27_SortUnlessEarlierBlock ==
    LET q == toLowerCase(chatInput)
        column == findColumnInQuestion(q, currentData.schema)
    IN (SynthCalled /\ SortQuestion(q) /\ currentData.schema # <<>>) =>
           /\ ~EarlierKeyword(q) =>
                  call.result =
                      SortStatement(column, IF DescWord(q) THEN "DESC" ELSE "ASC")
           /\ includes(q, "highest") =>
                  call.result = SortStatement(column, "DESC") \o " LIMIT 1"

\* 'sort highest sales': the statement of the maximum block.
C27_HighestGivesTheMaximum ==
    /\ SynthCalled
    /\ currentData.schema = <<"Sales", "Category">>
    /\ chatInput = "sort highest sales"
    /\ call.result = "SELECT * FROM user_data ORDER BY \"Sales\" DESC LIMIT 1"

\* 'sort lowest sales': the statement of the minimum block.
C27_LowestGivesTheMinimum ==
    /\ SynthCalled
    /\ currentData.schema = <<"Sales", "Category">>
    /\ chatInput = "sort lowest sales"
    /\ call.result = "SELECT * FROM user_data ORDER BY \"Sales\" ASC LIMIT 1"

\* 'Order DESCENDING sales' and 'sort sales': the sort statement.
C27_DescendingSorts ==
    /\ SynthCalled
    /\ currentData.schema = <<"Sales", "Category">>
    /\ chatInput = "Order DESCENDING sales"
    /\ call.result = "SELECT * FROM user_data ORDER BY \"Sales\" DESC"

C27_PlainSortAscends ==
    /\ SynthCalled
    /\ currentData.schema = <<"Sales", "Category">>
    /\ chatInput = "sort sales"
    /\ call.result = "SELECT * FROM user_data ORDER BY \"Sales\" ASC"

----------------------------------------------------------------------------
(* The loading indicator *)

\* An upload or a question that has started and has not finished.
InFlight == uploads # <<>> \/ sends # <<>>

\* C28: whenever at least one upload or question is in flight the loading
\* indicator is shown, also when two requests overlap; it is hidden only in
\* states with no request in flight.
C28_ShownWhileInFlight == InFlight => loading

\* What the code does: the indicator is shown while exactly one request has
\* been in flight since it was last switched; in every state without a
\* request in flight it is hidden.
C28_HiddenWhenIdle == ~InFlight => ~loading

\* Two requests overlap and the one that ended first has hidden the
\* indicator while the other is still in flight.
C28_HiddenWithOneInFlight ==
    /\ Len(uploads) + Len(sends) = 1
    /\ started.uploads + started.sends = 2
    /\ ~loading

----------------------------------------------------------------------------
(* The model pipeline *)

\* A call of initializeAI passes its test and starts a load.
LoadStarts == aiLoads' = aiLoads + 1

\* A load resolves and the pipeline is assigned.
PipelineCreated ==
    /\ aiLoads' = aiLoads - 1
    /\ pipeline' # null
    /\ status'.text = "AI model loaded successfully!"

\* A load starts only when no load has succeeded or is under way.
C29_LoadOnlyWhenNone == [][LoadStarts => (~modelLoaded /\ aiLoads = 0)]_vars

\* The pipeline is assigned only when it has not been assigned before.
C29_CreatedOnce == [][PipelineCreated => pipeline = null]_vars

\* C29: over any sequence of uploads the pipeline is created at most once
\* (initializeAI starts a load only when no load has succeeded or is under
\* way), and in every state modelLoaded is true only if pipeline is set.
C29_OnePipeline ==
    /\ C29_LoadOnlyWhenNone
    /\ C29_CreatedOnce
    /\ [](modelLoaded => pipeline # null)

\* What the code does: a load starts only when no load has succeeded, and
\* modelLoaded is true only if pipeline is set.
C29_LoadOnlyBeforeSuccess ==
    /\ [][LoadStarts => ~modelLoaded]_vars
    /\ [](modelLoaded => pipeline # null)

\* Two uploads have ended while the model was not loaded: two loads are under
\* way.
C29_TwoLoads ==
    /\ aiLoads = 2
    /\ ~modelLoaded
    /\ pipeline = null

\* The first of two loads has resolved and the second is still under way: its
\* end will assign the pipeline again.
C29_SecondLoadPending ==
    /\ aiLoads = 1
    /\ modelLoaded
    /\ pipeline # null
    /\ started.uploads = 2

----------------------------------------------------------------------------
(* The value of the search block *)

\* Search questions: a keyword of the search block and a column, then a text.
SearchQuestions ==
    { a \o t : a \in { "find Category ", "sales where " }, t \in Texts }

InitSearch ==
    /\ \E question \in SearchQuestions : Loaded(<<"Sales", "Category">>, question)
    /\ call = idle

\* Calls of the synthesizer with search questions.
SpecSearch == InitSearch /\ [][CallGenerateSQLWithPatterns]_vars

\* The places of the single quotes of a statement.
SingleQuotes(sql) == { i \in 1..Len(sql) : Char(sql, i) = "'" }

\* C30: in every statement of the find/search/where block the value between
\* the percent signs of the LIKE pattern is non-empty and holds neither a
\* single nor a double quote; the only single quotes of the statement are the
\* two of the template, the one that opens the literal and the one that ends
\* the statement.
C30_LikeValueHasNoQuote ==
    (SynthCalled /\ HasLike(call.result)) =>
        LET sql == call.result
            value == LikeValue(sql)
            opens == CHOOSE i \in Occurrences(" LIKE '%", sql) : TRUE
        IN /\ Cardinality(Occurrences(" LIKE '%", sql)) = 1
           /\ value # ""
           /\ \A k \in 1..Len(value) : ~IsQuote(Char(value, k))
           /\ SubSeq(sql, Len(sql) - 1, Len(sql)) = "%'"
           /\ SingleQuotes(sql) = { opens + 6, Len(sql) }

\* A question with three single quotes: the value ends at the second one and
\* what follows is left out of the statement.
C30_ThreeQuotes ==
    /\ SynthCalled
    /\ chatInput = "find Category 'a'a'"
    /\ call.result = "SELECT * FROM user_data WHERE \"Category\" LIKE '%a%'"

\* An empty quotation is passed over.
C30_EmptyQuotation ==
    /\ SynthCalled
    /\ chatInput = "find Category ''a'"
    /\ call.result = "SELECT * FROM user_data WHERE \"Category\" LIKE '%a%'"

=============================================================================
